---- MODULE Spec2Model ----
\* RockFit rules engine: grid, rotation, scoring, seven-bag randomizer and the
\* state transitions of src/game/transitions.ts, modelled over a small heap so
\* that the sharing of grid rows between snapshots is visible.
EXTENDS Integers, Sequences, FiniteSets, TLC

VARIABLES
    cur,            \* the snapshot the caller holds (main.ts `state`)
    arrs,           \* heap: outer grid arrays, array id -> sequence of row ids
    rows,           \* heap: row objects, row id -> sequence of cells
    bag,            \* SevenBag.bag of the module-level sevenBag
    currentCombo,   \* module-scoped combo counter of kit/scoring.ts
    held,           \* a snapshot returned earlier that the caller kept, with its grid as returned
    last,           \* the last call: its name, arguments and what it did
    spawned,        \* whether a spawn has been performed on this game
    steps,          \* number of calls made since the start position
    draws,          \* the keys sevenBag.next() has returned, oldest first
    arg,            \* a call of one kit function: its name and arguments
    out,            \* what that call returned
    app,            \* main.ts: which wiring runs, dropAccum, assist.level, the last event
    touch           \* systems/touch.ts: fingers down per button, the Map `handles`, the handles made

vars == <<cur, arrs, rows, bag, currentCombo, held, last, spawned, steps, draws, arg, out, app, touch>>

\* ------------------------------------------------------------------ bounds
\* calls explored from each start position
MaxSteps == 5
\* Math.random() returns one of 0/RandSteps .. (RandSteps-1)/RandSteps
RandSteps == 2
\* draws followed on the randomizer alone
MaxDraws == 21
\* grids given to a kit function have up to GridSide rows and columns
GridSide == 2
\* shapes given to the rotation functions have up to ShapeSide rows and columns
ShapeSide == 2
\* levels and combo streaks given to scoreForLines
MaxLevel == 3
MaxCombo == 3

\* ------------------------------------------------------------------ program constants
\* newGameState(width = 10, height = 20)
BoardWidth == 10
BoardHeight == 20

\* ------------------------------------------------------------------ small helpers
Zeros(n) == [i \in 1..n |-> 0]

Max(a, b) == IF a > b THEN a ELSE b

\* the one element of a singleton set; { e(x) : x \in {v} } evaluates v once
Only(S) == CHOOSE v \in S : TRUE

\* the elements of a sequence
RowsOf(arr) == {arr[i] : i \in 1..Len(arr)}

FreshId(used) == CHOOSE i \in 1..(Cardinality(used) + 1) : i \notin used

\* {...a, ...b}: the fields of b override those of a
Spread(a, b) == [f \in (DOMAIN a) \cup (DOMAIN b) |-> IF f \in DOMAIN b THEN b[f] ELSE a[f]]

\* ------------------------------------------------------------------ kit/rotation.ts
\* assertShape that also refuses shapes that are not square
assertShapeSquare(shape) ==
    /\ Len(shape) # 0
    /\ Len(shape[1]) # 0
    /\ \A r \in 1..Len(shape) : Len(shape[r]) = Len(shape[1])
    /\ Len(shape) = Len(shape[1])

\* assertShape(shape): TRUE when it returns, FALSE when it throws; the cells of the
\* model are integers, so the test for finite numbers always passes
assertShape(shape) ==
    /\ Len(shape) # 0
    /\ Len(shape[1]) # 0
    /\ \A r \in 1..Len(shape) : Len(shape[r]) = Len(shape[1])

\* a transposition instead of a rotation
rotateRightTransposes(shape) ==
    [c \in 1..Len(shape[1]) |-> [r \in 1..Len(shape) |-> shape[r][c]]]

\* out[c][rows - 1 - r] = shape[r][c], 0-based; here 1-based
rotateRight(shape) ==
    LET nrows == Len(shape)
        ncols == Len(shape[1])
    IN [c \in 1..ncols |-> [k \in 1..nrows |-> shape[nrows + 1 - k][c]]]

precomputeRotations(base) ==
    LET r0 == base
        r1 == rotateRight(r0)
        r2 == rotateRight(r1)
        r3 == rotateRight(r2)
    IN <<r0, r1, r2, r3>>

\* ------------------------------------------------------------------ game/pieces.ts
keys == <<"I", "J", "L", "O", "S", "T", "Z">>

KeySet == {keys[i] : i \in 1..Len(keys)}

ID(k) ==
    CASE k = "I" -> 1 [] k = "J" -> 2 [] k = "L" -> 3 [] k = "O" -> 4
      [] k = "S" -> 5 [] k = "T" -> 6 [] k = "Z" -> 7

tint(id, raw) == [r \in 1..Len(raw) |-> [c \in 1..Len(raw[r]) |-> IF raw[r][c] # 0 THEN id ELSE 0]]

RawShape(k) ==
    CASE k = "I" -> << <<1, 1, 1, 1>> >>
      [] k = "J" -> << <<1, 0, 0>>, <<1, 1, 1>> >>
      [] k = "L" -> << <<0, 0, 1>>, <<1, 1, 1>> >>
      [] k = "O" -> << <<1, 1>>, <<1, 1>> >>
      [] k = "S" -> << <<0, 1, 1>>, <<1, 1, 0>> >>
      [] k = "T" -> << <<0, 1, 0>>, <<1, 1, 1>> >>
      [] k = "Z" -> << <<1, 1, 0>>, <<0, 1, 1>> >>

PIECES(k) == precomputeRotations(tint(ID(k), RawShape(k)))

\* ------------------------------------------------------------------ game/pieces/bag_randomizer.ts
\* A value of Math.random() is a fraction <<num, den>> in [0, 1);
\* Math.floor(random * (i + 1)) is then (num * (i + 1)) \div den.
RandomValues == {<<k, RandSteps>> : k \in 0..(RandSteps - 1)}

\* One refill makes Len(keys) - 1 calls of Math.random(); the model lets every call
\* of one refill return the same value.
RandomStreams == {[n \in 1..(Len(keys) - 1) |-> v] : v \in RandomValues}

\* the values under which a refilled bag is popped in the order I, J, L, O, S, T, Z
CatalogStream == << <<0, 7>>, <<2, 7>>, <<3, 7>>, <<6, 7>>, <<5, 7>>, <<4, 7>> >>

\* a refill happens only when the bag is empty; otherwise no random value is read
StreamsFor(b) == IF Len(b) = 0 THEN RandomStreams ELSE {CatalogStream}

\* a swap that loses the element at i
SwapOverwrites(b, i, j) == [b EXCEPT ![i] = b[j]]

Swap(b, i, j) == [b EXCEPT ![i] = b[j], ![j] = b[i]]

RECURSIVE ShuffleFrom(_, _, _)
\* the loop `for (i = length - 1; i > 0; i--)`, i 0-based; rs[n] is the n-th random value
ShuffleFrom(b, i, rs) ==
    IF i <= 0 THEN b
    ELSE LET j == (rs[Len(b) - i][1] * (i + 1)) \div rs[Len(b) - i][2]
         IN ShuffleFrom(Swap(b, i + 1, j + 1), i - 1, rs)

\* next() that refills as soon as one key is left
SevenBagNextEager(b, rs) ==
    LET full == IF Len(b) <= 1 THEN ShuffleFrom(keys, Len(keys) - 1, rs) ELSE b
    IN [key |-> full[Len(full)], bag |-> SubSeq(full, 1, Len(full) - 1)]

\* SevenBag.next(): [key, bag]
SevenBagNext(b, rs) ==
    LET full == IF Len(b) = 0 THEN ShuffleFrom(keys, Len(keys) - 1, rs) ELSE b
    IN [key |-> full[Len(full)], bag |-> SubSeq(full, 1, Len(full) - 1)]

randomPieceKey(b, rs) == SevenBagNext(b, rs)

\* ------------------------------------------------------------------ kit/scoring.ts (combo variant)
BaseTable == <<0, 100, 300, 500, 800>>

\* scoreForLines that takes the bonus from the streak before incrementing it
scoreForLinesBonusFirst(lines, level, combo) ==
    LET base == IF lines \in 0..4 THEN BaseTable[lines + 1] ELSE 0
    IN IF lines > 0
       THEN [score |-> IF combo > 1 THEN base * level + 50 * (combo - 1) * level ELSE base * level,
             combo |-> combo + 1]
       ELSE [score |-> base * level, combo |-> 0]

\* [score, combo]: the points returned and the new value of currentCombo
scoreForLines(lines, level, combo) ==
    LET base == IF lines \in 0..4 THEN BaseTable[lines + 1] ELSE 0
        score == base * level
    IN IF lines > 0
       THEN LET c == combo + 1
            IN [score |-> IF c > 1 THEN score + 50 * (c - 1) * level ELSE score, combo |-> c]
       ELSE [score |-> score, combo |-> 0]

\* resetCombo(): the new value of currentCombo
resetCombo(combo) == 0

levelForLines(totalLines) == (totalLines \div 10) + 1

speedForLevel(level) == Max(100, 800 - (level - 1) * 50)

\* ------------------------------------------------------------------ kit/grid.ts
\* createGrid: height fresh rows of width zeros, as [arr, rows]
createGrid(width, height) ==
    [arr |-> [i \in 1..height |-> i], rows |-> [i \in 1..height |-> Zeros(width)]]

\* the cells of a grid array as a matrix
View(as, rs, a) == [i \in 1..Len(as[a]) |-> rs[as[a][i]]]

\* collides that counts a filled cell above the top as a hit
collidesAboveTop(grid, shape, x, y) ==
    LET height == Len(grid)
        width == IF height = 0 THEN 0 ELSE Len(grid[1])
        nrows == Len(shape)
        ncols == IF nrows = 0 THEN 0 ELSE Len(shape[1])
    IN IF height = 0 \/ width = 0 \/ nrows = 0 \/ ncols = 0 THEN TRUE
       ELSE \E r \in 0..(nrows - 1), c \in 0..(ncols - 1) :
              /\ shape[r + 1][c + 1] # 0
              /\ LET gx == x + c
                     gy == y + r
                 IN IF gx < 0 \/ gx >= width \/ gy >= height \/ gy < 0 THEN TRUE
                    ELSE grid[gy + 1][gx + 1] # 0

\* collides(grid, shape, pos): grid a matrix, pos = {x, y} integers (Math.trunc is then no change)
collides(grid, shape, x, y) ==
    LET height == Len(grid)
        width == IF height = 0 THEN 0 ELSE Len(grid[1])
        nrows == Len(shape)
        ncols == IF nrows = 0 THEN 0 ELSE Len(shape[1])
    IN IF height = 0 \/ width = 0 \/ nrows = 0 \/ ncols = 0 THEN TRUE
       ELSE \E r \in 0..(nrows - 1), c \in 0..(ncols - 1) :
              /\ shape[r + 1][c + 1] # 0
              /\ LET gx == x + c
                     gy == y + r
                 IN IF gx < 0 \/ gx >= width \/ gy >= height THEN TRUE
                    ELSE gy >= 0 /\ grid[gy + 1][gx + 1] # 0

\* place that writes the constant 1 for every filled shape cell
placeOnes(as, rs, a, shape, x, y) ==
    LET arr == as[a]
        height == Len(arr)
        width == IF height = 0 THEN 0 ELSE Len(rs[arr[1]])
        nrows == Len(shape)
        ncols == IF nrows = 0 THEN 0 ELSE Len(shape[1])
        Written(gy, gx) ==
            \E r \in 0..(nrows - 1), c \in 0..(ncols - 1) :
                shape[r + 1][c + 1] # 0 /\ x + c = gx /\ y + r = gy
    IN IF height = 0 \/ width = 0 \/ nrows = 0 \/ ncols = 0 THEN rs
       ELSE [id \in DOMAIN rs |->
               IF \E gy \in 0..(height - 1) : arr[gy + 1] = id
               THEN LET gy == CHOOSE g \in 0..(height - 1) : arr[g + 1] = id
                    IN [gx1 \in 1..Len(rs[id]) |->
                          IF gx1 - 1 < width /\ Written(gy, gx1 - 1) THEN 1 ELSE rs[id][gx1]]
               ELSE rs[id]]

\* place(grid, shape, pos) on the heap: writes into the row objects of array a; the new rows
place(as, rs, a, shape, x, y) ==
    LET arr == as[a]
        height == Len(arr)
        width == IF height = 0 THEN 0 ELSE Len(rs[arr[1]])
        nrows == Len(shape)
        ncols == IF nrows = 0 THEN 0 ELSE Len(shape[1])
        Written(gy, gx) ==
            \E r \in 0..(nrows - 1), c \in 0..(ncols - 1) :
                shape[r + 1][c + 1] # 0 /\ x + c = gx /\ y + r = gy
        Value(gy, gx) == shape[gy - y + 1][gx - x + 1]
    IN IF height = 0 \/ width = 0 \/ nrows = 0 \/ ncols = 0 THEN rs
       ELSE [id \in DOMAIN rs |->
               IF \E gy \in 0..(height - 1) : arr[gy + 1] = id
               THEN LET gy == CHOOSE g \in 0..(height - 1) : arr[g + 1] = id
                    IN [gx1 \in 1..Len(rs[id]) |->
                          IF gx1 - 1 < width /\ Written(gy, gx1 - 1)
                          THEN Value(gy, gx1 - 1) ELSE rs[id][gx1]]
               ELSE rs[id]]

\* ------------------------------------------------------------------ game/rules/locking.ts
\* assertGrid of locking.ts: TRUE when it returns, FALSE when it throws
assertGridLocking(grid) ==
    /\ Len(grid) # 0
    /\ Len(grid[1]) # 0
    /\ \A r \in 1..Len(grid) : Len(grid[r]) = Len(grid[1])

\* assertActivePiece: row and col are numbers in the model
assertActivePiece(p) ==
    /\ Len(p.shape) # 0
    /\ Len(p.shape[1]) # 0
    /\ \A r \in 1..Len(p.shape) : Len(p.shape[r]) = Len(p.shape[1])

\* lockPiece(grid, p), grid a matrix: [threw, grid]
lockPiece(grid, p) ==
    IF ~assertGridLocking(grid) \/ ~assertActivePiece(p) THEN [threw |-> TRUE, grid |-> grid]
    ELSE LET height == Len(grid)
             width == Len(grid[1])
             shapeRows == Len(p.shape)
             shapeCols == Len(p.shape[1])
             Skipped(gr, gc) == gr < 0 \/ gr >= height \/ gc < 0 \/ gc >= width
             Source(gr, gc) ==
                 {<<r, c>> \in (0..(shapeRows - 1)) \X (0..(shapeCols - 1)) :
                     /\ p.shape[r + 1][c + 1] # 0
                     /\ p.row + r = gr
                     /\ p.col + c = gc
                     /\ ~Skipped(gr, gc)}
         IN [threw |-> FALSE,
             grid |-> [gr1 \in 1..height |->
                         [gc1 \in 1..width |->
                            IF Source(gr1 - 1, gc1 - 1) # {}
                            THEN LET rc == Only(Source(gr1 - 1, gc1 - 1))
                                 IN p.shape[rc[1] + 1][rc[2] + 1]
                            ELSE grid[gr1][gc1]]]]

\* ------------------------------------------------------------------ kit/grid.ts, continued
\* row.every((v) => v !== 0)
RowFull(row) == \A i \in 1..Len(row) : row[i] # 0

RemoveAt(s, i) == SubSeq(s, 1, i - 1) \o SubSeq(s, i + 1, Len(s))

RECURSIVE ClearLoopPush(_, _, _, _, _)
\* the loop of clearLines with the new row pushed at the bottom instead of unshifted
ClearLoopPush(arr, rs, width, r, cleared) ==
    IF r < 0 THEN [arr |-> arr, rows |-> rs, cleared |-> cleared]
    ELSE IF RowFull(rs[arr[r + 1]])
         THEN LET fresh == FreshId(DOMAIN rs)
              IN Only({ClearLoopPush(arr2, rs2, width, r - 1, cleared + 1) :
                         arr2 \in {RemoveAt(arr, r + 1) \o <<fresh>>},
                         rs2 \in {rs @@ (fresh :> Zeros(width))}})
         ELSE ClearLoopPush(arr, rs, width, r - 1, cleared)

RECURSIVE ClearLoopNoRecheck(_, _, _, _, _)
\* the loop of clearLines without `r++`: the row that moved into index r is skipped
ClearLoopNoRecheck(arr, rs, width, r, cleared) ==
    IF r < 0 THEN [arr |-> arr, rows |-> rs, cleared |-> cleared]
    ELSE IF RowFull(rs[arr[r + 1]])
         THEN LET fresh == FreshId(DOMAIN rs)
              IN Only({ClearLoopNoRecheck(arr2, rs2, width, r - 1, cleared + 1) :
                         arr2 \in {<<fresh>> \o RemoveAt(arr, r + 1)},
                         rs2 \in {rs @@ (fresh :> Zeros(width))}})
         ELSE ClearLoopNoRecheck(arr, rs, width, r - 1, cleared)

RECURSIVE ClearLoopNarrowRow(_, _, _, _, _)
\* the loop of clearLines with `Array(width - 1)`: the row added on top is one
\* cell short
ClearLoopNarrowRow(arr, rs, width, r, cleared) ==
    IF r < 0 THEN [arr |-> arr, rows |-> rs, cleared |-> cleared]
    ELSE IF RowFull(rs[arr[r + 1]])
         THEN LET fresh == FreshId(DOMAIN rs)
              IN Only({ClearLoopNarrowRow(arr2, rs2, width, r, cleared + 1) :
                         arr2 \in {<<fresh>> \o RemoveAt(arr, r + 1)},
                         rs2 \in {rs @@ (fresh :> Zeros(width - 1))}})
         ELSE ClearLoopNarrowRow(arr, rs, width, r - 1, cleared)

RECURSIVE ClearLoop(_, _, _, _, _)
\* the loop of clearLines from 0-based index r: [arr, rows, cleared]
ClearLoop(arr, rs, width, r, cleared) ==
    IF r < 0 THEN [arr |-> arr, rows |-> rs, cleared |-> cleared]
    ELSE IF RowFull(rs[arr[r + 1]])
         THEN LET fresh == FreshId(DOMAIN rs)
              IN Only({ClearLoop(arr2, rs2, width, r, cleared + 1) :
                         arr2 \in {<<fresh>> \o RemoveAt(arr, r + 1)},
                         rs2 \in {rs @@ (fresh :> Zeros(width))}})
         ELSE ClearLoop(arr, rs, width, r - 1, cleared)

\* clearLines that empties the full rows where they are, without shifting
clearLinesInPlace(as, rs, a) ==
    [arr |-> as[a],
     rows |-> [id \in DOMAIN rs |-> IF id \in RowsOf(as[a]) /\ RowFull(rs[id]) /\ Len(rs[id]) > 0
                                    THEN Zeros(Len(rs[id])) ELSE rs[id]],
     cleared |-> Cardinality({i \in 1..Len(as[a]) : RowFull(rs[as[a][i]]) /\ Len(rs[as[a][i]]) > 0})]

\* clearLines that removes the lowest full row only
clearLinesOnce(as, rs, a) ==
    LET arr == as[a]
        width == IF Len(arr) = 0 THEN 0 ELSE Len(rs[arr[1]])
        full == {i \in 1..Len(arr) : RowFull(rs[arr[i]])}
    IN IF width = 0 \/ full = {} THEN [arr |-> arr, rows |-> rs, cleared |-> 0]
       ELSE LET i == CHOOSE j \in full : \A k \in full : k <= j
                fresh == FreshId(DOMAIN rs)
            IN [arr |-> <<fresh>> \o RemoveAt(arr, i), rows |-> rs @@ (fresh :> Zeros(width)),
                cleared |-> 1]

\* clearLines(grid) on the heap: splices array a in place
clearLines(as, rs, a) ==
    LET arr == as[a]
        width == IF Len(arr) = 0 THEN 0 ELSE Len(rs[arr[1]])
    IN IF width = 0 THEN [arr |-> arr, rows |-> rs, cleared |-> 0]
       ELSE ClearLoop(arr, rs, width, Len(arr) - 1, 0)

\* ------------------------------------------------------------------ game/state.ts
NoPiece == [shape |-> <<>>, row |-> 0, col |-> 0]

\* newGameState(width, height) given the key drawn for nextKey; the grid is array 1
newGameState(key) ==
    [grid |-> 1, active |-> NoPiece, nextKey |-> key, score |-> 0, level |-> 1,
     lines |-> 0, combo |-> 0, paused |-> FALSE, gameOver |-> FALSE]

\* ------------------------------------------------------------------ game/transitions.ts
\* A world is the snapshot passed to a transition together with everything the
\* transition can read or write: [cur, arrs, rows, bag, currentCombo].
World == [cur |-> cur, arrs |-> arrs, rows |-> rows, bag |-> bag, currentCombo |-> currentCombo]

GridOf(w) == View(w.arrs, w.rows, w.cur.grid)

SpawnRow == -1

SpawnCol == 3

\* spawnPiece without the collision test: the piece is always made active
spawnPieceAlways(w, rs) ==
    LET state == w.cur
        drawn == randomPieceKey(w.bag, rs)
    IN [w EXCEPT !.cur = Spread(state, [active |-> [shape |-> PIECES(state.nextKey)[1],
                                                    row |-> SpawnRow, col |-> SpawnCol],
                                        nextKey |-> drawn.key]),
                 !.bag = drawn.bag]

\* spawnPiece that drops the piece on a collision but does not end the game
spawnPieceNoGameOver(w, rs) ==
    LET state == w.cur
        shape == PIECES(state.nextKey)[1]
        drawn == randomPieceKey(w.bag, rs)
    IN IF collides(GridOf(w), shape, SpawnCol, SpawnRow)
       THEN [w EXCEPT !.cur = Spread(state, [active |-> NoPiece]), !.bag = drawn.bag]
       ELSE [w EXCEPT !.cur = Spread(state, [active |-> [shape |-> shape, row |-> SpawnRow,
                                                         col |-> SpawnCol],
                                             nextKey |-> drawn.key]),
                      !.bag = drawn.bag]

\* spawnPiece that puts the piece on row 0 instead of the row above the top
spawnPieceAtTop(w, rs) ==
    LET state == w.cur
        shape == PIECES(state.nextKey)[1]
        drawn == randomPieceKey(w.bag, rs)
    IN IF collides(GridOf(w), shape, SpawnCol, 0)
       THEN [w EXCEPT !.cur = Spread(state, [active |-> NoPiece, gameOver |-> TRUE]), !.bag = drawn.bag]
       ELSE [w EXCEPT !.cur = Spread(state, [active |-> [shape |-> shape, row |-> 0, col |-> SpawnCol],
                                             nextKey |-> drawn.key]),
                      !.bag = drawn.bag]

\* spawnPiece(state), state = w.cur; rs the random values of a possible refill
spawnPiece(w, rs) ==
    LET state == w.cur
        key == state.nextKey
    IN IF key \notin KeySet
       THEN [w EXCEPT !.cur = Spread(state, [active |-> NoPiece, gameOver |-> TRUE])]
       ELSE LET shape == PIECES(key)[1]
                active == [shape |-> shape, row |-> SpawnRow, col |-> SpawnCol]
                drawn == randomPieceKey(w.bag, rs)
            IN IF collides(GridOf(w), shape, active.col, active.row)
               THEN [w EXCEPT !.cur = Spread(state, [active |-> NoPiece, gameOver |-> TRUE]),
                              !.bag = drawn.bag]
               ELSE [w EXCEPT !.cur = Spread(state, [active |-> active, nextKey |-> drawn.key]),
                              !.bag = drawn.bag]

\* what a transition reports besides the world it leaves: whether it returned the
\* input reference, whether it locked the piece, the rows cleared, the rows descended
Ret(w, same, locked, cleared, dropped) ==
    [w |-> w, same |-> same, locked |-> locked, cleared |-> cleared, dropped |-> dropped]

\* the lock sequence with scoreForLines(totalLines, newLevel): the running total is
\* scored instead of the rows just cleared
LockAtScoresTotal(w, row, dropped, rs) ==
    LET state == w.cur
        a == state.active
        Spawn(cl, sc) ==
            LET totalLines == state.lines + cl.cleared
                newLevel == levelForLines(totalLines)
                newScore == state.score + sc.score
                newCombo == sc.combo
            IN Only({Ret(spawnPiece(w2, rs), FALSE, TRUE, cl.cleared, dropped) :
                       w2 \in {[cur |-> Spread(state, [active |-> NoPiece, lines |-> totalLines,
                                                       level |-> newLevel, score |-> newScore,
                                                       combo |-> newCombo]),
                                arrs |-> [w.arrs EXCEPT ![state.grid] = cl.arr],
                                rows |-> cl.rows,
                                bag |-> w.bag,
                                currentCombo |-> sc.combo]}})
        Score(cl) ==
            Only({Spawn(cl, sc) :
                    sc \in {scoreForLines(state.lines + cl.cleared, levelForLines(state.lines + cl.cleared),
                                          w.currentCombo)}})
        Clear(placed) == Only({Score(cl) : cl \in {clearLines(w.arrs, placed, state.grid)}})
    IN Only({Clear(placed) : placed \in {place(w.arrs, w.rows, state.grid, a.shape, a.col, row)}})

\* the lock sequence with scoreForLines(cleared, state.level): the points are
\* multiplied by the level of the snapshot before the lock
LockAtScoresOldLevel(w, row, dropped, rs) ==
    LET state == w.cur
        a == state.active
        Spawn(cl, sc) ==
            LET totalLines == state.lines + cl.cleared
                newLevel == levelForLines(totalLines)
                newScore == state.score + sc.score
                newCombo == sc.combo
            IN Only({Ret(spawnPiece(w2, rs), FALSE, TRUE, cl.cleared, dropped) :
                       w2 \in {[cur |-> Spread(state, [active |-> NoPiece, lines |-> totalLines,
                                                       level |-> newLevel, score |-> newScore,
                                                       combo |-> newCombo]),
                                arrs |-> [w.arrs EXCEPT ![state.grid] = cl.arr],
                                rows |-> cl.rows,
                                bag |-> w.bag,
                                currentCombo |-> sc.combo]}})
        Score(cl) ==
            Only({Spawn(cl, sc) :
                    sc \in {scoreForLines(cl.cleared, state.level,
                                          w.currentCombo)}})
        Clear(placed) == Only({Score(cl) : cl \in {clearLines(w.arrs, placed, state.grid)}})
    IN Only({Clear(placed) : placed \in {place(w.arrs, w.rows, state.grid, a.shape, a.col, row)}})

\* the lock sequence of move and hardDrop: place at (row, a.col), clear lines,
\* fold the count into lines/level/score/combo, spawn
LockAt(w, row, dropped, rs) ==
    LET state == w.cur
        a == state.active
        Spawn(cl, sc) ==
            LET totalLines == state.lines + cl.cleared
                newLevel == levelForLines(totalLines)
                newScore == state.score + sc.score
                newCombo == sc.combo
            IN Only({Ret(spawnPiece(w2, rs), FALSE, TRUE, cl.cleared, dropped) :
                       w2 \in {[cur |-> Spread(state, [active |-> NoPiece, lines |-> totalLines,
                                                       level |-> newLevel, score |-> newScore,
                                                       combo |-> newCombo]),
                                arrs |-> [w.arrs EXCEPT ![state.grid] = cl.arr],
                                rows |-> cl.rows,
                                bag |-> w.bag,
                                currentCombo |-> sc.combo]}})
        Score(cl) ==
            Only({Spawn(cl, sc) :
                    sc \in {scoreForLines(cl.cleared, levelForLines(state.lines + cl.cleared),
                                          w.currentCombo)}})
        Clear(placed) == Only({Score(cl) : cl \in {clearLines(w.arrs, placed, state.grid)}})
    IN Only({Clear(placed) : placed \in {place(w.arrs, w.rows, state.grid, a.shape, a.col, row)}})

\* move that locks the piece at the candidate row instead of the current one
moveLockBelow(w, dx, dy, rs) ==
    LET state == w.cur
        a == state.active
    IN IF a = NoPiece THEN Ret(w, TRUE, FALSE, 0, 0)
       ELSE IF collides(GridOf(w), a.shape, a.col + dx, a.row + dy)
            THEN IF dy > 0
                 THEN LockAt(w, a.row + dy, 0, rs)
                 ELSE Ret(w, TRUE, FALSE, 0, 0)
            ELSE Ret([w EXCEPT !.cur = Spread(state, [active |-> [shape |-> a.shape, row |-> a.row + dy,
                                                                  col |-> a.col + dx]])],
                     FALSE, FALSE, 0, 0)

\* move that locks the piece on every colliding candidate, sideways ones included
moveBumpLocks(w, dx, dy, rs) ==
    LET state == w.cur
        a == state.active
    IN IF a = NoPiece THEN Ret(w, TRUE, FALSE, 0, 0)
       ELSE IF collides(GridOf(w), a.shape, a.col + dx, a.row + dy)
            THEN LockAt(w, a.row, 0, rs)
            ELSE Ret([w EXCEPT !.cur = Spread(state, [active |-> [shape |-> a.shape, row |-> a.row + dy,
                                                                  col |-> a.col + dx]])],
                     FALSE, FALSE, 0, 0)

\* move whose relocated snapshot is also unpaused
moveUnpauses(w, dx, dy, rs) ==
    LET state == w.cur
        a == state.active
    IN IF a = NoPiece THEN Ret(w, TRUE, FALSE, 0, 0)
       ELSE IF collides(GridOf(w), a.shape, a.col + dx, a.row + dy)
            THEN IF dy > 0 THEN LockAt(w, a.row, 0, rs) ELSE Ret(w, TRUE, FALSE, 0, 0)
            ELSE Ret([w EXCEPT !.cur = Spread(state, [active |-> [shape |-> a.shape, row |-> a.row + dy,
                                                                  col |-> a.col + dx],
                                                      paused |-> FALSE])],
                     FALSE, FALSE, 0, 0)

\* move that ignores every bump, downward ones included: the piece is never locked
moveNeverLocks(w, dx, dy, rs) ==
    LET state == w.cur
        a == state.active
    IN IF a = NoPiece THEN Ret(w, TRUE, FALSE, 0, 0)
       ELSE IF collides(GridOf(w), a.shape, a.col + dx, a.row + dy) THEN Ret(w, TRUE, FALSE, 0, 0)
            ELSE Ret([w EXCEPT !.cur = Spread(state, [active |-> [shape |-> a.shape, row |-> a.row + dy,
                                                                  col |-> a.col + dx]])],
                     FALSE, FALSE, 0, 0)

\* move(state, dx, dy)
move(w, dx, dy, rs) ==
    LET state == w.cur
        a == state.active
    IN IF a = NoPiece THEN Ret(w, TRUE, FALSE, 0, 0)
       ELSE LET nextRow == a.row + dy
                nextCol == a.col + dx
            IN IF collides(GridOf(w), a.shape, nextCol, nextRow)
               THEN IF dy > 0
                    THEN LockAt(w, a.row, 0, rs)
                    ELSE Ret(w, TRUE, FALSE, 0, 0)
               ELSE Ret([w EXCEPT !.cur = Spread(state, [active |-> [shape |-> a.shape, row |-> nextRow,
                                                                     col |-> nextCol]])],
                        FALSE, FALSE, 0, 0)

\* rotate that turns the piece without asking collides
rotateUnchecked(w) ==
    LET state == w.cur
        a == state.active
    IN IF a = NoPiece THEN Ret(w, TRUE, FALSE, 0, 0)
       ELSE Ret([w EXCEPT !.cur = Spread(state, [active |-> [shape |-> rotateRight(a.shape), row |-> a.row,
                                                             col |-> a.col]])],
                FALSE, FALSE, 0, 0)

\* rotate with a wall kick: a colliding rotation is retried one column to the left
rotateWithKick(w) ==
    LET state == w.cur
        a == state.active
    IN IF a = NoPiece THEN Ret(w, TRUE, FALSE, 0, 0)
       ELSE LET nextShape == rotateRight(a.shape)
                Turned(col) == Ret([w EXCEPT !.cur = Spread(state, [active |-> [shape |-> nextShape,
                                                                                  row |-> a.row,
                                                                                  col |-> col]])],
                                   FALSE, FALSE, 0, 0)
            IN IF ~collides(GridOf(w), nextShape, a.col, a.row) THEN Turned(a.col)
               ELSE IF ~collides(GridOf(w), nextShape, a.col - 1, a.row) THEN Turned(a.col - 1)
               ELSE Ret(w, TRUE, FALSE, 0, 0)

\* rotate(state); when assertShape throws in rotateRight the caller keeps its
\* snapshot (the call record says that it threw)
rotate(w) ==
    LET state == w.cur
        a == state.active
    IN IF a = NoPiece THEN Ret(w, TRUE, FALSE, 0, 0)
       ELSE IF ~assertShape(a.shape) THEN Ret(w, TRUE, FALSE, 0, 0)
       ELSE LET nextShape == rotateRight(a.shape)
            IN IF ~collides(GridOf(w), nextShape, a.col, a.row)
               THEN Ret([w EXCEPT !.cur = Spread(state, [active |-> [shape |-> nextShape, row |-> a.row,
                                                                     col |-> a.col]])],
                        FALSE, FALSE, 0, 0)
               ELSE Ret(w, TRUE, FALSE, 0, 0)

RECURSIVE DropRow(_, _, _, _)
\* the loop `while (!collides(grid, shape, {x: col, y: row + 1})) row++`
DropRow(grid, shape, col, row) ==
    IF ~collides(grid, shape, col, row + 1) THEN DropRow(grid, shape, col, row + 1) ELSE row

\* hardDrop that locks the piece where it is, without the descent
hardDropInPlace(w, rs) ==
    IF w.cur.active = NoPiece THEN Ret(w, TRUE, FALSE, 0, 0)
    ELSE LockAt(w, w.cur.active.row, 0, rs)

\* hardDrop that returns its input when the piece cannot descend, as move does on a bump
hardDropBlockedKeeps(w, rs) ==
    LET a == w.cur.active
    IN IF a = NoPiece THEN Ret(w, TRUE, FALSE, 0, 0)
       ELSE IF collides(GridOf(w), a.shape, a.col, a.row + 1) THEN Ret(w, TRUE, FALSE, 0, 0)
       ELSE Only({LockAt(w, row, row - a.row, rs) :
                    row \in {Only({DropRow(grid, a.shape, a.col, a.row) : grid \in {GridOf(w)}})}})

\* hardDrop(state)
hardDrop(w, rs) ==
    LET state == w.cur
        a == state.active
    IN IF a = NoPiece THEN Ret(w, TRUE, FALSE, 0, 0)
       ELSE Only({LockAt(w, row, row - a.row, rs) :
                    row \in {Only({DropRow(grid, a.shape, a.col, a.row) : grid \in {GridOf(w)}})}})

\* togglePause that does nothing once the game is over
togglePauseUnlessOver(w) ==
    IF w.cur.gameOver THEN Ret(w, TRUE, FALSE, 0, 0)
    ELSE Ret([w EXCEPT !.cur = Spread(w.cur, [paused |-> ~w.cur.paused])], FALSE, FALSE, 0, 0)

\* togglePause that also clears gameOver
togglePauseRevives(w) ==
    Ret([w EXCEPT !.cur = Spread(w.cur, [paused |-> ~w.cur.paused, gameOver |-> FALSE])],
        FALSE, FALSE, 0, 0)

\* togglePause(state)
togglePause(w) ==
    Ret([w EXCEPT !.cur = Spread(w.cur, [paused |-> ~w.cur.paused])], FALSE, FALSE, 0, 0)

\* restart that keeps the cells of the grid
restartKeepsCells(w, rs) ==
    Only({Ret([sp EXCEPT !.cur = Spread(w.cur, sp.cur)], FALSE, FALSE, 0, 0) :
            sp \in {spawnPiece([w EXCEPT !.cur = Spread(w.cur, [score |-> 0, lines |-> 0, combo |-> 0,
                                                                gameOver |-> FALSE])], rs)}})

\* restart(state): state.grid.map((r) => r.fill(0)) zeroes the row objects of
\* state.grid in place and collects them in a new outer array
restart(w, rs) ==
    LET state == w.cur
        old == w.arrs[state.grid]
        clearedGrid == Len(w.arrs) + 1
        filled == [id \in DOMAIN w.rows |->
                     IF id \in RowsOf(old) THEN Zeros(Len(w.rows[id])) ELSE w.rows[id]]
    IN Only({Ret([sp EXCEPT !.cur = Spread(state, sp.cur)], FALSE, FALSE, 0, 0) :
               sp \in {Only({spawnPiece(w2, rs) :
                               w2 \in {[w EXCEPT !.cur = Spread(state, [grid |-> clearedGrid, score |-> 0,
                                                                        lines |-> 0, combo |-> 0,
                                                                        gameOver |-> FALSE]),
                                                 !.arrs = Append(w.arrs, old),
                                                 !.rows = filled]}})}})

\* ------------------------------------------------------------------ the caller
NotHeld == [has |-> FALSE, grid |-> 0, view |-> <<>>]

\* the record of a call: its name and arguments, what it reported, and the scalar
\* fields of the snapshot it was given
Call(name, dx, dy, r) ==
    [name |-> name, dx |-> dx, dy |-> dy, same |-> r.same, locked |-> r.locked,
     cleared |-> r.cleared, dropped |-> r.dropped,
     threw |-> name = "rotate" /\ cur.active # NoPiece /\ ~assertShape(cur.active.shape),
     pre |-> [score |-> cur.score, lines |-> cur.lines, level |-> cur.level, combo |-> cur.combo,
              paused |-> cur.paused, gameOver |-> cur.gameOver,
              gridZero |-> \A id \in RowsOf(arrs[cur.grid]) : rows[id] = Zeros(Len(rows[id]))]]

\* no kit function called on its own, nothing returned
NoArg == [fn |-> "none"]

NoOut == [done |-> FALSE]

\* no page loaded: the engine is called directly
NoApp == [main |-> "none", dropAccum |-> 0, assist |-> 0, src |-> "none", code |-> "none",
          key |-> "none", adopted |-> FALSE, ticks |-> <<>>, dt |-> 0]

\* the buttons of the touch bar, by data-action
TouchActions == {"left", "right", "down", "rotate", "hard", "pause", "restart"}

\* no finger on the touch bar, `handles` empty, no handle made
NoTouch == [pointers |-> [a \in TouchActions |-> 0], entry |-> [a \in TouchActions |-> 0], h |-> <<>>]

NoCall ==
    [name |-> "newGameState", dx |-> 0, dy |-> 0, same |-> FALSE, locked |-> FALSE,
     cleared |-> 0, dropped |-> 0, threw |-> FALSE,
     pre |-> [score |-> 0, lines |-> 0, level |-> 1, combo |-> 0, paused |-> FALSE,
              gameOver |-> FALSE, gridZero |-> TRUE]]

\* The caller adopts the snapshot of world w and keeps h. Heap objects that neither
\* references are collected and the others renamed in a fixed order (addresses carry
\* no meaning): the current grid array is 1, its rows 1..height.
Adopt(w, h) ==
    \E ca \in {w.arrs[w.cur.grid]}, other \in {h.has /\ h.grid # w.cur.grid} :
      \E ha \in {IF other THEN w.arrs[h.grid] ELSE <<>>} :
        \E order \in {ca \o SelectSeq(ha, LAMBDA id : id \notin RowsOf(ca))} :
          \E name \in {[id \in RowsOf(order) |-> CHOOSE n \in 1..Len(order) : order[n] = id]} :
            /\ cur' = [w.cur EXCEPT !.grid = 1]
            /\ arrs' = IF other
                       THEN << [i \in 1..Len(ca) |-> name[ca[i]]], [i \in 1..Len(ha) |-> name[ha[i]]] >>
                       ELSE << [i \in 1..Len(ca) |-> name[ca[i]]] >>
            /\ rows' = [n \in 1..Len(order) |-> w.rows[order[n]]]
            /\ bag' = w.bag
            /\ currentCombo' = w.currentCombo
            /\ held' = IF h.has THEN [h EXCEPT !.grid = IF other THEN 2 ELSE 1] ELSE h

\* the (dx, dy) the program passes to move: createInputHandlers, touch `once`, the gravity loop
MoveArgs == {<<-1, 0>>, <<1, 0>>, <<0, 1>>}

\* ------------------------------------------------------------------ start positions
\* module load and newGameState(): the grid is array 1, the first key is drawn
FreshWorld(rs) ==
    LET g == createGrid(BoardWidth, BoardHeight)
        drawn == randomPieceKey(<<>>, rs)
    IN [cur |-> newGameState(drawn.key), arrs |-> <<g.arr>>, rows |-> g.rows,
        bag |-> drawn.bag, currentCombo |-> 0]

\* one recorded call applied to a world
Step(w, c) ==
    CASE c = "spawn" -> spawnPiece(w, CatalogStream)
      [] c = "left" -> move(w, -1, 0, CatalogStream).w
      [] c = "right" -> move(w, 1, 0, CatalogStream).w
      [] c = "down" -> move(w, 0, 1, CatalogStream).w
      [] c = "rotate" -> rotate(w).w
      [] c = "hard" -> hardDrop(w, CatalogStream).w

RECURSIVE Replay(_, _)
Replay(w, calls) ==
    IF calls = <<>> THEN w ELSE Only({Replay(w2, Tail(calls)) : w2 \in {Step(w, Head(calls))}})

RECURSIVE ReplayAll(_, _)
\* the recorded calls of one piece after the other
ReplayAll(w, pieces) ==
    IF pieces = <<>> THEN w
    ELSE Only({ReplayAll(w2, Tail(pieces)) : w2 \in {Replay(w, Head(pieces))}})

Times(c, n) == [i \in 1..n |-> c]

\* I to the bottom left, J next to it, L three rows above the gap that is left in row 19
OpeningLine ==
    <<"spawn">> \o Times("left", 3) \o <<"hard", "right", "hard">> \o Times("right", 4)
        \o Times("down", 17)

\* after that line is cleared: a tower under the spawn position, O to J rotated and
\* dropped there, L falling onto it
OpeningTower ==
    OpeningLine \o <<"hard", "hard">>
        \o <<"rotate", "hard", "rotate", "hard", "rotate", "hard", "rotate", "hard", "rotate", "hard">>

\* the I piece upright, four columns to the right of the spawn column
OpeningWall == <<"spawn", "rotate">> \o Times("right", 4)

Openings == {OpeningLine, OpeningTower, OpeningWall}

StartAt(w, isSpawned) ==
    /\ cur = w.cur
    /\ arrs = w.arrs
    /\ rows = w.rows
    /\ bag = w.bag
    /\ currentCombo = w.currentCombo
    /\ held = NotHeld
    /\ last = NoCall
    /\ spawned = isSpawned
    /\ steps = 0
    /\ draws = <<>>
    /\ arg = NoArg
    /\ out = NoOut
    /\ app = NoApp
    /\ touch = NoTouch

\* a game played through four bags in catalog order: ten lines cleared, the T piece
\* of the fourth bag falling
OpeningLevelTwo ==
    << <<"spawn">>,
       <<"left", "hard">>,
       <<"rotate", "rotate", "rotate", "right", "right", "right", "right", "right", "hard">>,
       <<"rotate", "right", "right", "right", "hard">>,
       <<"right", "right", "right", "right", "hard">>,
       <<"left", "left", "left", "hard">>,
       <<"hard">>,
       <<"rotate", "right", "right", "hard">>,
       <<"left", "left", "left", "hard">>,
       <<"right", "right", "right", "right", "hard">>,
       <<"rotate", "rotate", "left", "left", "left", "hard">>,
       <<"hard">>,
       <<"left", "left", "hard">>,
       <<"rotate", "rotate", "right", "hard">>,
       <<"right", "right", "right", "right", "hard">>,
       <<"rotate", "left", "left", "left", "hard">>,
       <<"rotate", "rotate", "right", "right", "right", "right", "hard">>,
       <<"rotate", "rotate", "left", "left", "hard">>,
       <<"right", "right", "right", "right", "right", "hard">>,
       <<"right", "right", "hard">>,
       <<"rotate", "rotate", "hard">>,
       <<"left", "left", "left", "hard">>,
       <<"hard">>,
       <<"rotate", "rotate", "right", "right", "hard">>,
       <<"rotate", "rotate", "left", "hard">>,
       <<"right", "right", "right", "right", "right", "hard">>,
       <<"left", "left", "left", "hard">> >>

\* the same game one piece earlier: nine lines cleared, level 1, the Z piece falling
\* whose lock clears the tenth line
InitNineLines ==
    \E w \in {ReplayAll(FreshWorld(CatalogStream), SubSeq(OpeningLevelTwo, 1, Len(OpeningLevelTwo) - 1))} :
       StartAt(w, TRUE)

\* a game that has reached level 2
InitLevelTwo == \E w \in {ReplayAll(FreshWorld(CatalogStream), OpeningLevelTwo)} : StartAt(w, TRUE)

\* a game played through two bags in catalog order without clearing a line: six
\* rows filled except column 9, the I piece of the third bag upright above that
\* column
OpeningFourLines ==
    << <<"spawn">>,
       <<"right", "right", "hard">>,
       <<"right", "right", "hard">>,
       <<"left", "hard">>,
       <<"left", "left", "left", "hard">>,
       <<"left", "hard">>,
       <<"left", "left", "left", "hard">>,
       <<"right", "right", "hard">>,
       <<"rotate", "right", "right", "right", "right", "right", "hard">>,
       <<"rotate", "right", "right", "right", "right", "hard">>,
       <<"left", "hard">>,
       <<"right", "right", "hard">>,
       <<"left", "hard">>,
       <<"rotate", "left", "left", "left", "hard">>,
       <<"left", "left", "left", "hard">>,
       <<"rotate", "right", "right", "right", "right", "right", "right">> >>

\* a game set up for a four-line clear
InitFourLines == \E w \in {ReplayAll(FreshWorld(CatalogStream), OpeningFourLines)} : StartAt(w, TRUE)

\* the first row of a test board: filled except columns 0 and 1
ScenarioRow == [c \in 1..BoardWidth |-> IF c <= 2 THEN 0 ELSE 1]

\* A snapshot built by hand on newGameState() in a process whose sevenBag holds b
\* and whose combo counter is combo: row 19 filled except columns 0-1, the O piece
\* falling in columns 0-1 three rows above the floor.
ScenarioWorld(b, combo, rs) ==
    LET g == createGrid(BoardWidth, BoardHeight)
        drawn == randomPieceKey(b, rs)
    IN [cur |-> Spread(newGameState(drawn.key),
                       [active |-> [shape |-> PIECES("O")[1], row |-> BoardHeight - 4, col |-> 0]]),
        arrs |-> <<g.arr>>,
        rows |-> [g.rows EXCEPT ![BoardHeight] = ScenarioRow],
        bag |-> drawn.bag,
        currentCombo |-> combo]

\* the test board in a fresh process
InitScenario == \E rs \in RandomStreams : \E w \in {ScenarioWorld(<<>>, 0, rs)} : StartAt(w, TRUE)

\* the test board in a process that has played a game in which the last lock
\* cleared a line
InitSecondGame ==
    \E w0 \in {Replay(FreshWorld(CatalogStream), OpeningLine \o <<"hard">>)} :
       \E w \in {ScenarioWorld(w0.bag, w0.currentCombo, CatalogStream)} : StartAt(w, TRUE)

\* the test board in a process in which the last `combo` locks each cleared a line
InitScenarioStreak ==
    \E combo \in 1..MaxCombo :
       \E w0 \in {Replay(FreshWorld(CatalogStream), OpeningLine \o <<"hard">>)} :
          \E w \in {ScenarioWorld(w0.bag, combo, CatalogStream)} : StartAt(w, TRUE)

\* a new game, or a game some recorded calls into its first bag
Init ==
    \/ \E rs \in RandomStreams : \E w \in {FreshWorld(rs)} : StartAt(w, FALSE)
    \/ \E o \in Openings : \E w \in {Replay(FreshWorld(CatalogStream), o)} : StartAt(w, TRUE)

Tick == steps < MaxSteps /\ steps' = steps + 1 /\ UNCHANGED <<draws, arg, out, app, touch>>

\* state = spawnPiece(newGameState())
SpawnPiece ==
    /\ Tick
    /\ ~spawned
    /\ \E rs \in StreamsFor(bag) :
         \E w \in {spawnPiece(World, rs)} :
            /\ Adopt(w, held)
            /\ last' = Call("spawnPiece", 0, 0, Ret(w, FALSE, FALSE, 0, 0))
    /\ spawned' = TRUE

Move ==
    /\ Tick
    /\ \E d \in MoveArgs, rs \in StreamsFor(bag) :
         \E r \in {move(World, d[1], d[2], rs)} :
            /\ Adopt(r.w, held)
            /\ last' = Call("move", d[1], d[2], r)
            /\ spawned' = (spawned \/ r.locked)

Rotate ==
    /\ Tick
    /\ \E r \in {rotate(World)} :
         /\ Adopt(r.w, held)
         /\ last' = Call("rotate", 0, 0, r)
    /\ UNCHANGED spawned

HardDrop ==
    /\ Tick
    /\ \E rs \in StreamsFor(bag) :
         \E r \in {hardDrop(World, rs)} :
            /\ Adopt(r.w, held)
            /\ last' = Call("hardDrop", 0, 0, r)
            /\ spawned' = (spawned \/ r.locked)

TogglePause ==
    /\ Tick
    /\ \E r \in {togglePause(World)} :
         /\ Adopt(r.w, held)
         /\ last' = Call("togglePause", 0, 0, r)
    /\ UNCHANGED spawned

Restart ==
    /\ Tick
    /\ \E rs \in StreamsFor(bag) :
         \E r \in {restart(World, rs)} :
            /\ Adopt(r.w, held)
            /\ last' = Call("restart", 0, 0, r)
    /\ spawned' = TRUE

\* the caller keeps a reference to the snapshot it was just given (`const before = state`)
Hold ==
    /\ Tick
    /\ \E h \in {[has |-> TRUE, grid |-> cur.grid, view |-> View(arrs, rows, cur.grid)]} :
         Adopt(World, h)
    /\ UNCHANGED <<last, spawned>>

Next == SpawnPiece \/ Move \/ Rotate \/ HardDrop \/ TogglePause \/ Restart

Spec == Init /\ [][Next]_vars

NextInPlay == Move \/ Rotate \/ HardDrop \/ TogglePause \/ Restart

SpecLevelTwo == InitLevelTwo /\ [][NextInPlay]_vars

SpecScenario == (InitScenario \/ InitScenarioStreak) /\ [][NextInPlay]_vars

SpecSecondGame == InitSecondGame /\ [][NextInPlay]_vars

SpecFourLines == InitFourLines /\ [][NextInPlay]_vars

SpecNineLines == InitNineLines /\ [][NextInPlay]_vars

\* ------------------------------------------------------------------ every move the engine accepts
\* calls explored when move is given every (dx, dy) of {-1, 0, 1} x {-1, 0, 1}
WideSteps == 3

WideArgs == {<<dx, dy>> : dx \in {-1, 0, 1}, dy \in {-1, 0, 1}}

WideSpawnPiece == steps < WideSteps /\ SpawnPiece

WideMove ==
    /\ steps < WideSteps
    /\ Tick
    /\ \E d \in WideArgs, rs \in StreamsFor(bag) :
         \E r \in {move(World, d[1], d[2], rs)} :
            /\ Adopt(r.w, held)
            /\ last' = Call("move", d[1], d[2], r)
            /\ spawned' = (spawned \/ r.locked)

WideRotate == steps < WideSteps /\ Rotate

WideHardDrop == steps < WideSteps /\ HardDrop

WideTogglePause == steps < WideSteps /\ TogglePause

WideRestart == steps < WideSteps /\ Restart

NextWide == WideSpawnPiece \/ WideMove \/ WideRotate \/ WideHardDrop \/ WideTogglePause \/ WideRestart

SpecWide == Init /\ [][NextWide]_vars

NextHold == Next \/ Hold

SpecHold == Init /\ [][NextHold]_vars

\* ------------------------------------------------------------------ main.ts, systems/input.ts, systems/touch.ts
\* events handled from each start position of the page
MaxEvents == 2

\* the time between two animation frames, in ms
FrameTimes == {400, 2400}

\* the three versions of the page: src/main.ts hands setState to the input systems,
\* the main.ts with assist (part_004) does too and adds the assist keys, the refactored
\* main.ts (part_003: initState/installInputs/startLoop) hands applyStateWhenActive
Mains == {"main.ts", "part_004", "part_003"}

KeyCodes ==
    {"ArrowLeft", "ArrowRight", "ArrowDown", "ArrowUp", "Space", "KeyP", "KeyR", "PageUp", "PageDown"}

\* whether e.key of a keydown is "p" or "P"
Keys == {"p", "other"}

\* fingers that can be down on one button at once
MaxPointers == 2

\* assist.slowFactor and assist.scoreMul, in tenths
SlowFactor == <<10, 15, 20, 25>>

ScoreMul == <<10, 8, 6, 5>>

NoHandler == [name |-> "none", dx |-> 0, dy |-> 0]

\* createInputHandlers()[code]: the transition and its arguments
createInputHandlers(code) ==
    CASE code = "ArrowLeft" -> [name |-> "move", dx |-> -1, dy |-> 0]
      [] code = "ArrowRight" -> [name |-> "move", dx |-> 1, dy |-> 0]
      [] code = "ArrowDown" -> [name |-> "move", dx |-> 0, dy |-> 1]
      [] code = "ArrowUp" -> [name |-> "rotate", dx |-> 0, dy |-> 0]
      [] code = "Space" -> [name |-> "hardDrop", dx |-> 0, dy |-> 0]
      [] code = "KeyP" -> [name |-> "togglePause", dx |-> 0, dy |-> 0]
      [] code = "KeyR" -> [name |-> "restart", dx |-> 0, dy |-> 0]
      [] OTHER -> NoHandler

\* the function `once(action)` hands to apply
once(action) ==
    CASE action = "left" -> [name |-> "move", dx |-> -1, dy |-> 0]
      [] action = "right" -> [name |-> "move", dx |-> 1, dy |-> 0]
      [] action = "down" -> [name |-> "move", dx |-> 0, dy |-> 1]
      [] action = "rotate" -> [name |-> "rotate", dx |-> 0, dy |-> 0]
      [] action = "hard" -> [name |-> "hardDrop", dx |-> 0, dy |-> 0]
      [] action = "pause" -> [name |-> "togglePause", dx |-> 0, dy |-> 0]
      [] action = "restart" -> [name |-> "restart", dx |-> 0, dy |-> 0]

\* fn(curr) for the handler h
Handle(h, w, rs) ==
    CASE h.name = "move" -> move(w, h.dx, h.dy, rs)
      [] h.name = "rotate" -> rotate(w)
      [] h.name = "hardDrop" -> hardDrop(w, rs)
      [] h.name = "togglePause" -> togglePause(w)
      [] h.name = "restart" -> restart(w, rs)

\* nothing was called
NotCalled == Ret(World, TRUE, FALSE, 0, 0)

\* the setter handed to the input systems, called with a snapshot other than
\* `state`: setState replaces `state`; applyStateWhenActive returns early while
\* `state` is paused or game over
SetterAdopts(main, state) == main = "part_003" => ~(state.paused \/ state.gameOver)

\* apply(fn) of installTouchControls: fn is the arrow function made by `once`,
\* which is never the function togglePause or restart itself
apply(h, w, rs) ==
    IF w.cur.paused
    THEN [called |-> FALSE, r |-> Ret(w, TRUE, FALSE, 0, 0)]
    ELSE [called |-> TRUE, r |-> Handle(h, w, rs)]

\* onKeyDown of installKeyboard
onKeyDown(code, w, rs) ==
    LET h == createInputHandlers(code)
    IN IF h = NoHandler THEN [called |-> FALSE, r |-> Ret(w, TRUE, FALSE, 0, 0)]
       ELSE IF (w.cur.paused \/ w.cur.gameOver) /\ code \notin {"KeyP", "KeyR"}
            THEN [called |-> FALSE, r |-> Ret(w, TRUE, FALSE, 0, 0)]
            ELSE [called |-> TRUE, r |-> Handle(h, w, rs)]

\* the tick interval of the gravity loop
DropEvery(main, level, assist) ==
    LET cfg == speedForLevel(level)
        baseDrop == Max(60, cfg)
    IN IF main # "main.ts" THEN (baseDrop * SlowFactor[assist + 1]) \div 10 ELSE baseDrop

\* the loop with assist scales the points of a tick while assist is on: Math.round(delta * mul)
Assisted(main, assist, before, after) ==
    LET delta == after.score - before.score
    IN IF main # "main.ts" /\ delta > 0 /\ ScoreMul[assist + 1] # 10
       THEN [after EXCEPT !.score = before.score + ((delta * ScoreMul[assist + 1] + 5) \div 10)]
       ELSE after

\* what one pass of the loop body reported
TickOf(r, w) == [same |-> r.same, locked |-> r.locked, active |-> w.cur.active # NoPiece]

RECURSIVE GravityLoopNoBreak(_, _, _, _, _, _, _)
\* the while loop without its `break`
GravityLoopNoBreak(main, assist, w, accum, dropEvery, rs, ticks) ==
    IF accum >= dropEvery
    THEN Only({GravityLoopNoBreak(main, assist, [r.w EXCEPT !.cur = Assisted(main, assist, w.cur, r.w.cur)],
                                  accum - dropEvery, dropEvery, rs, Append(ticks, TickOf(r, w))) :
                 r \in {move(w, 0, 1, rs)}})
    ELSE [w |-> w, accum |-> accum, ticks |-> ticks]

RECURSIVE GravityLoop(_, _, _, _, _, _, _)
\* `while (dropAccum >= dropEvery)` of loop: [w, accum, ticks]
GravityLoop(main, assist, w, accum, dropEvery, rs, ticks) ==
    IF accum >= dropEvery
    THEN Only({IF ~r.same
               THEN GravityLoop(main, assist, [r.w EXCEPT !.cur = Assisted(main, assist, w.cur, r.w.cur)],
                                accum - dropEvery, dropEvery, rs, Append(ticks, TickOf(r, w)))
               ELSE [w |-> w, accum |-> accum - dropEvery, ticks |-> Append(ticks, TickOf(r, w))] :
                 r \in {move(w, 0, 1, rs)}})
    ELSE [w |-> w, accum |-> accum, ticks |-> ticks]

\* loop(now) with dt = now - lastTime
loop(main, assist, w, dropAccum, dt, rs) ==
    IF ~w.cur.paused /\ ~w.cur.gameOver
    THEN GravityLoop(main, assist, w, dropAccum + dt, DropEvery(main, w.cur.level, assist), rs, <<>>)
    ELSE [w |-> w, accum |-> dropAccum, ticks |-> <<>>]

\* the event record of app
Event(src, code, adopted, ticks) ==
    [app EXCEPT !.src = src, !.code = code, !.key = "none", !.adopted = adopted, !.ticks = ticks,
                !.dt = 0]

\* the page after an event: `state` is the result if it was adopted; what the
\* transition wrote into the heap and drew from the bag stays in either case
Settled(called, h, r, adopted, ev) ==
    /\ steps' = steps + 1
    /\ \E w \in {IF adopted THEN r.w ELSE [r.w EXCEPT !.cur = cur]} : Adopt(w, held)
    /\ last' = IF called THEN Call(h.name, h.dx, h.dy, r) ELSE Call("none", 0, 0, r)
    /\ app' = ev
    /\ UNCHANGED <<spawned, draws, arg, out>>

\* an event of the page whose listener leaves the repeat timers as they are
Settle(called, h, r, adopted, ev) ==
    /\ steps < MaxEvents
    /\ Settled(called, h, r, adopted, ev)
    /\ UNCHANGED touch

\* setPaused(!state.paused): togglePause, and on resume dropAccum = 0
Paused(ev) ==
    \E r \in {togglePause(World)} :
       Settled(TRUE, createInputHandlers("KeyP"), r, TRUE,
               [ev EXCEPT !.adopted = TRUE, !.dropAccum = IF r.w.cur.paused THEN @ ELSE 0])

SetPaused(ev) == steps < MaxEvents /\ Paused(ev) /\ UNCHANGED touch

\* bumpAssist(delta)
BumpAssist(ev, delta) ==
    Settle(FALSE, NoHandler, NotCalled, FALSE,
           [ev EXCEPT !.assist = IF @ + delta < 0 THEN 0 ELSE IF @ + delta > 3 THEN 3 ELSE @ + delta])

\* a keydown event with its code, whether its key is "p" or "P", and its repeat flag.
\* The capturing hotkey listener of the refactored main.ts takes PageDown, PageUp
\* and P (by code or by key) unless e.repeat is set, and stops the event; the
\* listener of the main.ts with assist takes PageDown and PageUp, repeated or not;
\* every other keydown reaches onKeyDown of installKeyboard.
KeyDown ==
    /\ steps < MaxEvents
    /\ \E code \in KeyCodes, key \in Keys, repeat \in BOOLEAN :
       \E ev \in {[Event("key", code, FALSE, <<>>) EXCEPT !.key = key]} :
          IF app.main = "part_003" /\ ~repeat /\ code \in {"PageUp", "PageDown"}
          THEN BumpAssist(ev, IF code = "PageDown" THEN 1 ELSE -1)
          ELSE IF app.main = "part_003" /\ ~repeat /\ (code = "KeyP" \/ key = "p")
          THEN SetPaused(ev)
          ELSE IF app.main = "part_004" /\ code \in {"PageUp", "PageDown"}
          THEN BumpAssist(ev, IF code = "PageDown" THEN 1 ELSE -1)
          ELSE \E rs \in StreamsFor(bag) :
                 \E k \in {onKeyDown(code, World, rs)} :
                    \E adopted \in {k.called /\ ~k.r.same /\ SetterAdopts(app.main, cur)} :
                       Settle(k.called, createInputHandlers(code), k.r, adopted,
                              [ev EXCEPT !.adopted = adopted])

\* repeats[action]
repeats(action) == action \in {"left", "right", "down"}

\* `const h: RepeatHandle = {}` of startRepeat(btn, action): timeout and interval
\* are unset, scheduled, fired or cleared
NewHandle(action) == [action |-> action, timeout |-> "none", interval |-> "none"]

\* once(action) run from a listener or a timer, with the setter of the page
Once(action, src) ==
    \E rs \in StreamsFor(bag) :
       \E t \in {apply(once(action), World, rs)} :
          \E adopted \in {t.called /\ ~t.r.same /\ SetterAdopts(app.main, cur)} :
             Settled(t.called, once(action), t.r, adopted, Event(src, action, adopted, <<>>))

\* startRepeat(btn, action): a new handle replaces the entry of btn in `handles`;
\* the timers of the handle it replaces are not touched
startRepeat(t, action) ==
    [t EXCEPT !.entry[action] = Len(t.h) + 1,
              !.h = Append(t.h, [NewHandle(action) EXCEPT
                                    !.timeout = IF repeats(action) THEN "set" ELSE "none"])]

\* stopRepeat(btn): clears the timers of the handle `handles` holds for btn
stopRepeat(t, action) ==
    IF t.entry[action] = 0 THEN t
    ELSE [t EXCEPT !.entry[action] = 0,
                   !.h[t.entry[action]] =
                       [@ EXCEPT !.timeout = IF @ = "set" THEN "cleared" ELSE @,
                                 !.interval = IF @ = "set" THEN "cleared" ELSE @]]

\* an event that calls no transition
TouchOnly(src, code) ==
    /\ steps' = steps + 1
    /\ app' = Event(src, code, FALSE, <<>>)
    /\ last' = Call("none", 0, 0, NotCalled)
    /\ UNCHANGED <<cur, arrs, rows, bag, currentCombo, held, spawned, draws, arg, out>>

\* pointerdown on the button of `action`: the pause button of the refactored
\* main.ts has its own listener, which stops the event; on every other button
\* onDown runs startRepeat
onDown(action) ==
    /\ touch.pointers[action] < MaxPointers
    /\ IF app.main = "part_003" /\ action = "pause"
       THEN /\ Paused(Event("touch", action, TRUE, <<>>))
            /\ touch' = [touch EXCEPT !.pointers[action] = @ + 1]
       ELSE /\ Once(action, "touch")
            /\ touch' = [startRepeat(touch, action) EXCEPT !.pointers[action] = @ + 1]

\* pointerup, pointercancel or pointerleave on the button of `action`
onUp(action) ==
    /\ TouchOnly("release", action)
    /\ touch' = [stopRepeat(touch, action) EXCEPT !.pointers[action] = IF @ > 0 THEN @ - 1 ELSE 0]

\* the callback of setTimeout(..., 220) of handle k: starts its interval
Timeout(k) ==
    /\ touch.h[k].timeout = "set"
    /\ TouchOnly("timeout", touch.h[k].action)
    /\ touch' = [touch EXCEPT !.h[k].timeout = "fired", !.h[k].interval = "set"]

\* the callback of setInterval(..., 60) of handle k
Interval(k) ==
    /\ touch.h[k].interval = "set"
    /\ Once(touch.h[k].action, "repeat")
    /\ UNCHANGED touch

PointerDown == steps < MaxEvents /\ \E action \in TouchActions : onDown(action)

PointerUp == steps < MaxEvents /\ \E action \in TouchActions : onUp(action)

TimeoutFires == steps < MaxEvents /\ \E k \in 1..Len(touch.h) : Timeout(k)

IntervalFires == steps < MaxEvents /\ \E k \in 1..Len(touch.h) : Interval(k)

\* visibilitychange with document.hidden: onVis of the refactored main.ts
Hidden ==
    /\ steps < MaxEvents
    /\ app.main = "part_003"
    /\ IF ~cur.paused THEN SetPaused(Event("hidden", "visibilitychange", TRUE, <<>>))
       ELSE Settle(FALSE, NoHandler, NotCalled, FALSE, Event("hidden", "visibilitychange", FALSE, <<>>))

\* one animation frame
Frame ==
    /\ steps < MaxEvents
    /\ \E dt \in FrameTimes, rs \in StreamsFor(bag) :
       \E g \in {loop(app.main, app.assist, World, app.dropAccum, dt, rs)} :
          /\ steps < MaxEvents
          /\ steps' = steps + 1
          /\ Adopt(g.w, held)
          /\ last' = Call(IF g.ticks = <<>> THEN "none" ELSE "move", 0, IF g.ticks = <<>> THEN 0 ELSE 1,
                          Ret(g.w, g.ticks = <<>> \/ g.ticks[Len(g.ticks)].same,
                              \E i \in 1..Len(g.ticks) : g.ticks[i].locked, 0, 0))
          /\ app' = [Event("frame", "frame", TRUE, g.ticks) EXCEPT !.dropAccum = g.accum, !.dt = dt]
          /\ UNCHANGED <<spawned, draws, arg, out, touch>>

\* a game in which the next lock ends the game: the L piece rests on the tower
OpeningTopOut ==
    <<OpeningLine, <<"hard">>, <<"hard">>>> \o Times(<<"rotate", "hard">>, 5) \o << <<"hard">> >>

\* the page holds the snapshot of world w
PageAt(w) ==
    /\ cur = w.cur
    /\ arrs = w.arrs
    /\ rows = w.rows
    /\ bag = w.bag
    /\ currentCombo = w.currentCombo
    /\ held = NotHeld
    /\ last = NoCall
    /\ spawned = TRUE
    /\ steps = 0
    /\ draws = <<>>
    /\ arg = NoArg
    /\ out = NoOut

\* the left button held past the repeat delay: pointerdown, then the callback of
\* its timeout
HeldLeft ==
    [startRepeat(NoTouch, "left") EXCEPT !.pointers["left"] = 1,
                                        !.h[1].timeout = "fired", !.h[1].interval = "set"]

\* state = spawnPiece(newGameState()), or a game some recorded calls on, or the
\* first piece moved by the left button, which is still held
InitApp ==
    \E main \in Mains :
       /\ \/ /\ \E rs \in RandomStreams :
                   \E w \in {spawnPiece(FreshWorld(rs), CatalogStream)} : PageAt(w)
             /\ touch = NoTouch
          \/ /\ \E o \in {<<OpeningLine>>, OpeningTopOut} :
                   \E w \in {ReplayAll(FreshWorld(CatalogStream), o)} : PageAt(w)
             /\ touch = NoTouch
          \/ /\ \E w \in {Replay(FreshWorld(CatalogStream), <<"spawn", "left">>)} : PageAt(w)
             /\ touch = HeldLeft
       /\ app = [NoApp EXCEPT !.main = main]

NextApp == KeyDown \/ PointerDown \/ PointerUp \/ TimeoutFires \/ IntervalFires \/ Hidden \/ Frame

SpecApp == InitApp /\ [][NextApp]_vars

\* ------------------------------------------------------------------ systems/touch.ts: hold to repeat
\* pointer and timer events followed on the held buttons
MaxTouchEvents == 6

\* the buttons followed: one that repeats and one that does not
HeldActions == {"left", "hard"}

\* the page with the touch bar installed and no finger on it
InitTouch ==
    \E main \in Mains :
       /\ \E w \in {spawnPiece(FreshWorld(CatalogStream), CatalogStream)} : PageAt(w)
       /\ app = [NoApp EXCEPT !.main = main]
       /\ touch = NoTouch

HeldDown == steps < MaxTouchEvents /\ \E action \in HeldActions : onDown(action)

HeldUp == steps < MaxTouchEvents /\ \E action \in HeldActions : onUp(action)

HeldTimeout == steps < MaxTouchEvents /\ \E k \in 1..Len(touch.h) : Timeout(k)

HeldInterval == steps < MaxTouchEvents /\ \E k \in 1..Len(touch.h) : Interval(k)

NextTouch == HeldDown \/ HeldUp \/ HeldTimeout \/ HeldInterval

SpecTouch == InitTouch /\ [][NextTouch]_vars

\* ------------------------------------------------------------------ gravity against the keys
\* the pieces followed from their spawn to their lock
MaxPieces == 1

\* the gravity ticks the falling piece has had; the count restarts after a lock
TicksSoFar == IF last.locked THEN 0 ELSE steps

\* state = spawnPiece(newGameState()): the first piece of a new game
InitGravity == \E w \in {Replay(FreshWorld(CatalogStream), <<"spawn">>)} : StartAt(w, TRUE)

\* one call made while a piece falls: the page adopts the result; a lock draws a key
Falling(r, rs) ==
    /\ Len(draws) < MaxPieces
    /\ TicksSoFar <= BoardHeight + 1
    /\ cur.active # NoPiece
    /\ ~cur.paused
    /\ ~cur.gameOver
    /\ Adopt(r.w, held)
    /\ draws' = IF r.locked THEN Append(draws, randomPieceKey(bag, rs).key) ELSE draws
    /\ UNCHANGED <<spawned, arg, out, app, touch>>

\* the loop's `state = move(state, 0, 1)`
GravityTick ==
    \E rs \in StreamsFor(bag) :
       \E r \in {move(World, 0, 1, rs)} :
          /\ Falling(r, rs)
          /\ last' = Call("move", 0, 1, r)
          /\ steps' = TicksSoFar + 1

\* ArrowLeft / ArrowRight
Sideways ==
    \E dx \in {-1, 1} :
       \E r \in {move(World, dx, 0, CatalogStream)} :
          /\ Falling(r, CatalogStream)
          /\ last' = Call("move", dx, 0, r)
          /\ steps' = TicksSoFar

\* ArrowUp
Turn ==
    \E r \in {rotate(World)} :
       /\ Falling(r, CatalogStream)
       /\ last' = Call("rotate", 0, 0, r)
       /\ steps' = TicksSoFar

NextGravity == GravityTick \/ Sideways \/ Turn

\* requestAnimationFrame keeps calling loop, which owes a tick every dropEvery ms
SpecGravity == InitGravity /\ [][NextGravity]_vars /\ WF_vars(GravityTick)

\* ------------------------------------------------------------------ the randomizer alone
\* the game variables while only a kit object or function is exercised
GameParked ==
    /\ cur = newGameState(keys[1])
    /\ arrs = <<>>
    /\ rows = <<>>
    /\ currentCombo = 0
    /\ held = NotHeld
    /\ last = NoCall
    /\ spawned = FALSE
    /\ steps = 0
    /\ app = NoApp
    /\ touch = NoTouch

\* the random values of a refill: one of the constant streams or the catalog stream
RefillStreams == RandomStreams \cup {CatalogStream}

\* new SevenBag(keys)
InitBag == GameParked /\ bag = <<>> /\ draws = <<>> /\ arg = NoArg /\ out = NoOut

\* sevenBag.next()
Draw ==
    /\ Len(draws) < MaxDraws
    /\ \E rs \in (IF Len(bag) = 0 THEN RefillStreams ELSE {CatalogStream}) :
         \E r \in {SevenBagNext(bag, rs)} :
            /\ bag' = r.bag
            /\ draws' = Append(draws, r.key)
    /\ UNCHANGED <<cur, arrs, rows, currentCombo, held, last, spawned, steps, arg, out, app, touch>>

NextBag == Draw

SpecBag == InitBag /\ [][NextBag]_vars

\* ------------------------------------------------------------------ the kit functions alone
\* all matrices of nr rows and nc columns over the cell values vals
Matrices(nr, nc, vals) == [1..nr -> [1..nc -> vals]]

\* grids as createGrid makes them and play fills them: at least one column
KitGrids ==
    {<<>>} \cup UNION {Matrices(h, w, {0, 1}) : h \in 1..GridSide, w \in 1..GridSide}

\* taller grids of two columns, for runs of full rows between rows that stay
TallGrids == Matrices(GridSide + 2, 2, {0, 1})

\* a grid of one row without columns, which createGrid refuses to make
NoColumns == << <<>> >>

KitShapes ==
    {<<>>, NoColumns, << <<2>> >>, << <<2, 2>> >>, << <<0, 2>>, <<2, 2>> >>, << <<2, 0>>, <<0, 0>> >>}

\* shapes whose filled cells hold different values
PlaceShapes ==
    {<<>>, NoColumns, << <<2>> >>, << <<2, 3>> >>, << <<0, 2>>, <<3, 4>> >>, << <<5, 0>>, <<0, 0>> >>}

TurnShapes ==
    UNION {Matrices(r, c, {0, 1}) : r \in 1..ShapeSide, c \in 1..ShapeSide}
       \cup {PIECES(k)[1] : k \in KeySet}

\* the calls made of one kit function
KitCalls(call) ==
    \/ \E g \in KitGrids \cup TallGrids : call = [fn |-> "clearLines", grid |-> g]
    \/ \E g \in KitGrids \cup {NoColumns}, sh \in KitShapes, x \in (-1)..GridSide, y \in (-2)..GridSide :
          call = [fn |-> "collides", grid |-> g, shape |-> sh, x |-> x, y |-> y]
    \/ \E f \in {"place", "lockPiece"}, g \in KitGrids \cup {NoColumns}, sh \in PlaceShapes,
          x \in (-1)..GridSide, y \in (-2)..GridSide :
          call = [fn |-> f, grid |-> g, shape |-> sh, x |-> x, y |-> y]
    \/ \E f \in {"rotateRight", "precomputeRotations"}, sh \in TurnShapes :
          call = [fn |-> f, shape |-> sh]
    \/ \E n \in 0..4, l \in 1..MaxLevel, c \in 0..MaxCombo :
          call = [fn |-> "scoreForLines", lines |-> n, level |-> l, combo |-> c]
    \/ \E c \in 0..MaxCombo : call = [fn |-> "resetCombo", combo |-> c]

InitKit == GameParked /\ bag = <<>> /\ draws = <<>> /\ KitCalls(arg) /\ out = NoOut

Returns(fn, result) ==
    /\ arg.fn = fn
    /\ out = NoOut
    /\ out' = result
    /\ UNCHANGED <<cur, arrs, rows, bag, currentCombo, held, last, spawned, steps, draws, arg, app, touch>>

\* clearLines(grid) on a grid whose rows are the objects 1..height
ClearLines ==
    \E r \in {IF arg.fn = "clearLines"
              THEN clearLines(<<[i \in 1..Len(arg.grid) |-> i]>>, arg.grid, 1)
              ELSE [arr |-> <<>>, rows |-> <<>>, cleared |-> 0]} :
       Returns("clearLines", [done |-> TRUE, cleared |-> r.cleared, grid |-> View(<<r.arr>>, r.rows, 1)])

\* collides(grid, shape, pos); the function has no assignment to grid
Collides ==
    Returns("collides",
            [done |-> TRUE, grid |-> arg.grid, result |-> collides(arg.grid, arg.shape, arg.x, arg.y)])

\* place(grid, shape, {x, y}) on a grid whose rows are the objects 1..height
Place ==
    \E placed \in {IF arg.fn = "place"
                   THEN place(<<[i \in 1..Len(arg.grid) |-> i]>>, arg.grid, 1, arg.shape, arg.x, arg.y)
                   ELSE <<>>} :
       Returns("place", [done |-> TRUE, grid |-> placed])

\* lockPiece(grid, {shape, row: y, col: x})
LockPiece ==
    \E r \in {IF arg.fn = "lockPiece"
              THEN lockPiece(arg.grid, [shape |-> arg.shape, row |-> arg.y, col |-> arg.x])
              ELSE [threw |-> FALSE, grid |-> <<>>]} :
       Returns("lockPiece", [done |-> TRUE, threw |-> r.threw, grid |-> r.grid])

RotateRight == Returns("rotateRight", [done |-> TRUE, shape |-> rotateRight(arg.shape)])

PrecomputeRotations ==
    Returns("precomputeRotations", [done |-> TRUE, shapes |-> precomputeRotations(arg.shape)])

\* scoreForLines(lines, level) with currentCombo = arg.combo before the call
ScoreForLines ==
    \E r \in {IF arg.fn = "scoreForLines"
              THEN scoreForLines(arg.lines, arg.level, arg.combo)
              ELSE [score |-> 0, combo |-> 0]} :
       Returns("scoreForLines", [done |-> TRUE, score |-> r.score, combo |-> r.combo])

\* resetCombo() with currentCombo = arg.combo before the call
ResetCombo ==
    \E c \in {IF arg.fn = "resetCombo" THEN resetCombo(arg.combo) ELSE 0} :
       Returns("resetCombo", [done |-> TRUE, combo |-> c])

NextKit ==
    \/ ClearLines \/ Collides \/ Place \/ LockPiece \/ RotateRight \/ PrecomputeRotations
    \/ ScoreForLines \/ ResetCombo

SpecKit == InitKit /\ [][NextKit]_vars

\* ------------------------------------------------------------------ properties
\* the cells of the current snapshot's grid
Grid == View(arrs, rows, cur.grid)

AllZero(g) == \A r \in 1..Len(g) : g[r] = Zeros(Len(g[r]))

\* grid g with the non-zero cells of the shape written at column x, row y; cells
\* outside the grid are dropped
PlacedAt(g, shape, x, y) ==
    [r \in 1..Len(g) |->
       [c \in 1..Len(g[r]) |->
          LET sr == r - y
              sc == c - x
          IN IF sr \in 1..Len(shape) /\ sc \in 1..Len(shape[1]) /\ shape[sr][sc] # 0
             THEN shape[sr][sc]
             ELSE g[r][c]]]

IsFullRow(row) == \A c \in 1..Len(row) : row[c] # 0

FullRowCount(g) == Cardinality({r \in 1..Len(g) : IsFullRow(g[r])})

\* grid g with its full rows removed and as many empty rows added on top
WithoutFullRows(g) ==
    Times(Zeros(Len(g[1])), FullRowCount(g)) \o SelectSeq(g, LAMBDA row : ~IsFullRow(row))

\* some non-zero cell of the shape at column col lies left of column 0 or right of
\* the last column
OutsideWalls(shape, col) ==
    \E r \in 1..Len(shape), c \in 1..Len(shape[1]) :
       shape[r][c] # 0 /\ (col + c - 1 < 0 \/ col + c - 1 >= BoardWidth)

RECURSIVE MoveDownUntilLock(_, _)
\* move(., 0, 1) applied again and again, up to and including the call that locks
MoveDownUntilLock(w, rs) ==
    Only({IF r.locked THEN r.w ELSE MoveDownUntilLock(r.w, rs) : r \in {move(w, 0, 1, rs)}})

\* C1: the grid of a snapshot that a transition returned keeps its cells whatever
\* transitions are applied afterwards.
C1_HeldGridNeverChanges == held.has => View(arrs, rows, held.grid) = held.view

\* C2: move with an active piece, dy > 0 and a colliding candidate places the piece
\* at its current (row, col), clears the full rows, sets lines to the old lines plus
\* the rows cleared, level to levelForLines of the new lines, score to the old score
\* plus scoreForLines(cleared, new level), and returns what spawning the next piece
\* on that gives.
C2_MoveLocksInOrder ==
    [][(/\ last'.name = "move"
        /\ cur.active # NoPiece
        /\ last'.dy > 0
        /\ collides(Grid, cur.active.shape, cur.active.col + last'.dx, cur.active.row + last'.dy))
       => LET placed == PlacedAt(Grid, cur.active.shape, cur.active.col, cur.active.row)
              cleared == FullRowCount(placed)
              lines == cur.lines + cleared
              level == levelForLines(lines)
              piece == [shape |-> PIECES(cur.nextKey)[1], row |-> SpawnRow, col |-> SpawnCol]
              over == collides(WithoutFullRows(placed), piece.shape, piece.col, piece.row)
          IN /\ last'.locked
             /\ last'.cleared = cleared
             /\ Grid' = WithoutFullRows(placed)
             /\ cur'.lines = lines
             /\ cur'.level = level
             /\ cur'.score = cur.score + scoreForLines(cleared, level, currentCombo).score
             /\ cur'.gameOver = over
             /\ cur'.active = IF over THEN NoPiece ELSE piece]_vars

C2_Witness == last.name = "move" /\ last.locked /\ last.cleared = 1 /\ cur.score > last.pre.score

\* C3: move without an active piece, or with dy <= 0 and a colliding candidate,
\* returns the very snapshot it was given, no field and no grid cell changed.
C3_MoveBlockedReturnsInput ==
    [][(/\ last'.name = "move"
        /\ \/ cur.active = NoPiece
           \/ /\ last'.dy <= 0
              /\ collides(Grid, cur.active.shape, cur.active.col + last'.dx,
                          cur.active.row + last'.dy))
       => (last'.same /\ cur' = cur /\ Grid' = Grid)]_vars

C3_Witness ==
    /\ last.name = "move"
    /\ last.same
    /\ last.dx # 0
    /\ cur.active # NoPiece
    /\ collides(Grid, cur.active.shape, cur.active.col + last.dx, cur.active.row)

\* C4: rotate never changes row or col; a colliding rotation returns the input
\* unrotated, with no wall kick; otherwise the shape becomes rotateRight of the
\* shape at the same (row, col). An I piece whose rotation would reach outside the
\* left or right wall stays as it is.
C4_RotateInPlaceOrNotAtAll ==
    [][(last'.name = "rotate" /\ cur.active # NoPiece)
       => LET a == cur.active
              turned == rotateRight(a.shape)
          IN /\ cur'.active.row = a.row
             /\ cur'.active.col = a.col
             /\ Grid' = Grid
             /\ IF collides(Grid, turned, a.col, a.row)
                THEN last'.same /\ cur' = cur
                ELSE cur' = [cur EXCEPT !.active.shape = turned]
             /\ (a.shape \in RowsOf(PIECES("I")) /\ OutsideWalls(turned, a.col))
                   => cur'.active = a]_vars

C4_Witness ==
    /\ last.name = "rotate"
    /\ last.same
    /\ cur.active.shape = PIECES("I")[2]
    /\ OutsideWalls(rotateRight(cur.active.shape), cur.active.col)

\* C5: hardDrop gives the result of applying move(., 0, 1) until the piece locks:
\* the same grid, score, lines, level, combo and gameOver, and with the same draws
\* the same pieces.
C5_HardDropIsRepeatedSoftDrop ==
    cur.active # NoPiece
       => \A rs \in StreamsFor(bag) :
             \A h \in {hardDrop(World, rs).w}, m \in {MoveDownUntilLock(World, rs)} :
                /\ GridOf(h) = GridOf(m)
                /\ h.cur.score = m.cur.score
                /\ h.cur.lines = m.cur.lines
                /\ h.cur.level = m.cur.level
                /\ h.cur.combo = m.cur.combo
                /\ h.cur.gameOver = m.cur.gameOver
                /\ h.cur.active = m.cur.active
                /\ h.cur.nextKey = m.cur.nextKey
                /\ h.currentCombo = m.currentCombo

C5_Witness == last.name = "hardDrop" /\ last.locked /\ last.dropped >= 2 /\ last.cleared = 1

\* C6: gameOver turns from false to true only in a step that spawns a piece which
\* collides with the grid, and every spawn of a colliding piece leaves gameOver
\* true and no active piece.
C6_GameOverOnlyByCollidingSpawn ==
    [][LET spawns == last'.name \in {"spawnPiece", "restart"} \/ last'.locked
           hits == collides(Grid', PIECES(cur.nextKey)[1], SpawnCol, SpawnRow)
       IN /\ (~cur.gameOver /\ cur'.gameOver) => (spawns /\ hits)
          /\ (spawns /\ hits) => (cur'.gameOver /\ cur'.active = NoPiece)]_vars

C6_Witness == last.locked /\ ~last.pre.gameOver /\ cur.gameOver

\* C7: there is no active piece exactly when the game is over or no spawn has
\* been performed yet.
C7_NoActiveIffOverOrUnspawned == (cur.active = NoPiece) <=> (cur.gameOver \/ ~spawned)

C7_Witness == spawned /\ cur.gameOver /\ cur.active = NoPiece /\ last.name = "togglePause"

\* C8: restart gives what a brand-new game gives: an all-zero grid, score 0,
\* lines 0, level 1, combo 0, paused false, gameOver false, and locks that follow
\* are scored as in a brand-new game.
C8_RestartIsNewGame ==
    last.name = "restart"
       => /\ AllZero(Grid)
          /\ cur.score = 0
          /\ cur.lines = 0
          /\ cur.level = 1
          /\ cur.combo = 0
          /\ ~cur.paused
          /\ ~cur.gameOver
          /\ \A rs \in StreamsFor(bag) :
                \A a \in {hardDrop(World, rs).w.cur},
                   b \in {hardDrop([World EXCEPT !.currentCombo = 0], rs).w.cur} :
                   a.score = b.score /\ a.combo = b.combo

\* C9: on the 10x20 board restart returns an all-zero grid, score 0, lines 0,
\* gameOver false and an active piece.
C9_RestartClearsBoard ==
    last.name = "restart"
       => /\ AllZero(Grid)
          /\ cur.score = 0
          /\ cur.lines = 0
          /\ ~cur.gameOver
          /\ cur.active # NoPiece

C9_Witness ==
    /\ last.name = "restart"
    /\ last.pre.gameOver
    /\ last.pre.score > 0
    /\ ~last.pre.gridZero

\* C10: togglePause flips paused and nothing else, also on a game-over snapshot;
\* applied twice it gives back the original paused value.
C10_TogglePauseFlipsOnlyPaused ==
    [][last'.name = "togglePause"
       => /\ cur' = [cur EXCEPT !.paused = ~cur.paused]
          /\ Grid' = Grid
          /\ bag' = bag
          /\ currentCombo' = currentCombo
          /\ togglePause(World').w.cur.paused = cur.paused]_vars

C10_Witness == last.name = "togglePause" /\ last.pre.gameOver /\ cur.gameOver /\ cur.paused

\* the draws i .. i+6
Window(i) == SubSeq(draws, i, i + 6)

\* the number of the bag that draw i (1-based) comes from, 0-based
BagOf(i) == (i - 1) \div Len(keys)

\* C11 as stated: every window of 7 consecutive draws, wherever it starts, holds
\* each of the 7 ids exactly once.
C11_AnyWindowIsPermutation ==
    \A i \in 1..(Len(draws) - 6) : RowsOf(Window(i)) = KeySet

\* C11 amended: a window of 7 consecutive draws that starts at the first draw of a
\* bag holds each of the 7 ids exactly once; in a window that starts elsewhere an
\* id can appear twice, and then its two draws come from two successive bags.
C11_AlignedWindowIsPermutation ==
    \A i \in 1..(Len(draws) - 6) :
       /\ (i - 1) % Len(keys) = 0 => RowsOf(Window(i)) = KeySet
       /\ \A m, n \in i..(i + 6) :
             (m < n /\ draws[m] = draws[n]) => BagOf(n) = BagOf(m) + 1

C11_Witness ==
    \E i \in 1..(Len(draws) - 6) :
       /\ (i - 1) % Len(keys) # 0
       /\ RowsOf(Window(i)) # KeySet

\* C12: the bag is refilled only when it is empty, and then with one of each of
\* the 7 ids; so the draws 7k+1 .. 7k+7 are a permutation of the ids for every k,
\* and an id is drawn again at most 13 draws after its previous draw.
C12_RefillOnlyWhenEmpty ==
    [][/\ Len(bag) > 0 => (bag' = SubSeq(bag, 1, Len(bag) - 1) /\ draws' = Append(draws, bag[Len(bag)]))
       /\ Len(bag) = 0 =>
            /\ Len(bag') = Len(keys) - 1
            /\ RowsOf(bag') \cup {draws'[Len(draws')]} = KeySet
       /\ \A k \in 0..((Len(draws') \div Len(keys)) - 1) :
             RowsOf(SubSeq(draws', Len(keys) * k + 1, Len(keys) * k + Len(keys))) = KeySet
       /\ \A m \in 1..Len(draws') :
             (Len(draws') - m >= 13) => \E n \in (m + 1)..(m + 13) : draws'[n] = draws'[m]]_vars

C12_Witness == \E m \in 1..(Len(draws) - 13) : draws[m] = draws[m + 13] /\ \A n \in (m + 1)..(m + 12) : draws[n] # draws[m]

Returned(fn) == arg.fn = fn /\ out.done

\* C13: for every rectangular grid clearLines leaves height and width as they
\* were and returns the number of rows of the input grid whose cells were all
\* non-zero.
C13_ClearLinesKeepsShapeAndCounts ==
    Returned("clearLines")
       => /\ Len(out.grid) = Len(arg.grid)
          /\ \A r \in 1..Len(out.grid) : Len(out.grid[r]) = Len(arg.grid[1])
          /\ out.cleared = FullRowCount(arg.grid)

C13_Witness ==
    /\ Returned("clearLines")
    /\ Len(arg.grid) = 2
    /\ Len(arg.grid[1]) = 2
    /\ out.cleared = 2

\* the cell of the grid a shape cell (r, c), 0-based, lands on for position (x, y)
\* is free: its column is inside the walls and its row is above the top or inside
\* the grid on a cell holding 0
LandsFree(grid, x, y, r, c) ==
    /\ x + c >= 0
    /\ x + c < Len(grid[1])
    /\ \/ y + r < 0
       \/ (y + r < Len(grid) /\ grid[y + r + 1][x + c + 1] = 0)

IsEmptyMatrix(m) == Len(m) = 0 \/ Len(m[1]) = 0

\* C14: collides is false exactly when every non-zero cell of the shape lands in a
\* column inside [0, width) and in a row that is above the top or inside
\* [0, height) on a cell holding 0; it does not change the grid, and for an empty
\* grid or an empty shape it returns true.
C14_CollidesIffSomeCellBlocked ==
    Returned("collides")
       => /\ out.grid = arg.grid
          /\ IF IsEmptyMatrix(arg.grid) \/ IsEmptyMatrix(arg.shape)
             THEN out.result = TRUE
             ELSE (out.result = FALSE)
                     <=> \A r \in 0..(Len(arg.shape) - 1), c \in 0..(Len(arg.shape[1]) - 1) :
                            arg.shape[r + 1][c + 1] # 0 => LandsFree(arg.grid, arg.x, arg.y, r, c)

C14_Witness ==
    /\ Returned("collides")
    /\ out.result = FALSE
    /\ arg.y = -1
    /\ arg.shape = << <<0, 2>>, <<2, 2>> >>
    /\ \E r \in 1..Len(arg.grid) : arg.grid[r][1] # 0

\* C15: rotateRight of an R x C shape S is the C x R matrix with
\* output[c][R-1-r] = S[r][c]; four clockwise rotations give S again;
\* precomputeRotations(base) is exactly [base, rot(base), rot^2(base), rot^3(base)].
C15_RotateRightIsQuarterTurn ==
    /\ Returned("rotateRight")
          => LET S == arg.shape
                 R == Len(S)
                 C == Len(S[1])
             IN /\ Len(out.shape) = C
                /\ \A c \in 1..C : Len(out.shape[c]) = R
                /\ \A r \in 0..(R - 1), c \in 0..(C - 1) : out.shape[c + 1][(R - 1 - r) + 1] = S[r + 1][c + 1]
                /\ rotateRight(rotateRight(rotateRight(out.shape))) = S
    /\ Returned("precomputeRotations")
          => LET S == arg.shape
             IN /\ Len(out.shapes) = 4
                /\ out.shapes = <<S, rotateRight(S), rotateRight(rotateRight(S)),
                                  rotateRight(rotateRight(rotateRight(S)))>>

C15_Witness ==
    /\ Returned("rotateRight")
    /\ arg.shape = << <<1, 0>> >>
    /\ out.shape = << <<1>>, <<0>> >>

\* the base points of the claim for 1 to 4 lines
ClaimedBase(n) == CASE n = 1 -> 100 [] n = 2 -> 300 [] n = 3 -> 500 [] n = 4 -> 800

\* C16: for 1..4 lines and level >= 1 scoreForLines first increments the combo
\* streak and returns base[lines] * level, base = {1:100, 2:300, 3:500, 4:800},
\* plus 50 * (streak - 1) * level when the incremented streak exceeds 1.
C16_ScoreIsBaseTimesLevelPlusCombo ==
    (Returned("scoreForLines") /\ arg.lines \in 1..4)
       => LET streak == arg.combo + 1
          IN /\ out.combo = streak
             /\ out.score = ClaimedBase(arg.lines) * arg.level
                              + (IF streak > 1 THEN 50 * (streak - 1) * arg.level ELSE 0)

C16_Witness ==
    /\ Returned("scoreForLines")
    /\ arg.lines = 4
    /\ arg.level = 2
    /\ arg.combo = 1
    /\ out.score = 1700

\* C17: scoreForLines with 0 lines returns 0 and resets the combo streak to 0, so
\* every lock, by move or by hardDrop, that clears no line leaves score, lines and
\* level as they were and gives a snapshot with combo = 0.
C17_LockWithoutClearKeepsScoreLinesLevel ==
    [][(last'.locked /\ last'.cleared = 0)
       => /\ scoreForLines(0, cur.level, currentCombo) = [score |-> 0, combo |-> 0]
          /\ cur'.score = cur.score
          /\ cur'.lines = cur.lines
          /\ cur'.level = cur.level
          /\ cur'.combo = 0]_vars

\* C19: in every snapshot reached from a new game by spawnPiece, move, rotate,
\* hardDrop, togglePause and restart, level = floor(lines / 10) + 1.
C19_LevelFollowsLines == cur.level = (cur.lines \div 10) + 1

\* the scalar results of a lock
Scored(w) == [score |-> w.cur.score, lines |-> w.cur.lines, level |-> w.cur.level, combo |-> w.cur.combo]

\* C18: move and hardDrop give the same score, lines, level and combo for equal
\* snapshots and equal draws whatever was called before; the combo bonus of a lock
\* is determined by the snapshot's combo field alone.
C18_LockDependsOnSnapshotOnly ==
    cur.active # NoPiece
       => \A rs \in StreamsFor(bag) :
             \A byField \in {[World EXCEPT !.currentCombo = cur.combo]} :
                /\ Scored(hardDrop(World, rs).w) = Scored(hardDrop(byField, rs).w)
                /\ Scored(MoveDownUntilLock(World, rs)) = Scored(MoveDownUntilLock(byField, rs))

\* the O piece is active in columns 0-1 of the test board
OnScenarioBoard ==
    /\ Grid = [r \in 1..BoardHeight |-> IF r = BoardHeight THEN ScenarioRow ELSE Zeros(BoardWidth)]
    /\ cur.active # NoPiece
    /\ cur.active.shape = PIECES("O")[1]
    /\ cur.active.col = 0

\* C20 as stated: on the 10x20 board whose row 19 is filled except columns 0-1,
\* locking the O piece into columns 0-1 at the floor clears exactly 1 line, leaves
\* row 19 all-zero and raises the score by 100 * level.
C20_LockedOClearsRowToZero ==
    [][(OnScenarioBoard /\ last'.locked)
       => /\ last'.cleared = 1
          /\ Grid'[BoardHeight] = Zeros(BoardWidth)
          /\ cur'.score = cur.score + 100 * cur'.level]_vars

\* C20 amended: that lock clears exactly 1 line and raises the score by
\* (100 + 50 * streak) * level, where streak is the value the combo counter of the
\* scoring module holds before the lock (0 when the lock before it cleared no
\* line) and level is the level after the lock; the upper half of the O piece
\* moves down from row 18, so row 19 of the resulting grid holds the O piece in
\* columns 0-1 and zeros elsewhere, and every other row is all-zero.
C20_LockedOClearsOneLine ==
    [][(OnScenarioBoard /\ last'.locked)
       => /\ last'.cleared = 1
          /\ Grid'[BoardHeight] = [c \in 1..BoardWidth |-> IF c <= 2 THEN ID("O") ELSE 0]
          /\ \A r \in 1..(BoardHeight - 1) : Grid'[r] = Zeros(BoardWidth)
          /\ cur'.score = cur.score + (100 + 50 * currentCombo) * cur'.level
          /\ currentCombo' = currentCombo + 1]_vars

\* the O piece locked on the test board with a streak of 2 running: 200 points
C20_Witness ==
    /\ last.locked
    /\ last.name = "move"
    /\ last.cleared = 1
    /\ last.pre.score = 0
    /\ cur.score = 200
    /\ currentCombo = 3
    /\ Grid[BoardHeight][1] = ID("O")
    /\ Grid[BoardHeight][3] = 0

\* the same lock with no streak running: 100 points
C20_NoStreak ==
    /\ last.locked
    /\ last.cleared = 1
    /\ last.pre.score = 0
    /\ cur.score = 100
    /\ currentCombo = 1
    /\ Grid[BoardHeight][1] = ID("O")

\* a keydown whose key and code name the same key: "p" at KeyP, no "p" elsewhere
PlainKey(a) == a.src = "key" => (a.key = "p" <=> a.code = "KeyP")

\* the last event asked to resume, or to restart
AskedResume(a) == (a.src = "key" /\ a.code = "KeyP") \/ (a.src = "touch" /\ a.code = "pause")

AskedRestart(a) == (a.src = "key" /\ a.code = "KeyR") \/ (a.src = "touch" /\ a.code = "restart")

\* C21: while the current snapshot is paused no key, touch or frame changes grid,
\* active piece, score, lines or level, except that resume is applied, after which
\* play continues from the same grid and active piece, and restart is applied.
C21_PausedSuspendsAllButResumeAndRestart ==
    [][(cur.paused /\ PlainKey(app'))
       => /\ ~AskedRestart(app')
             => /\ Grid' = Grid
                /\ cur'.active = cur.active
                /\ cur'.score = cur.score
                /\ cur'.lines = cur.lines
                /\ cur'.level = cur.level
          /\ (~AskedResume(app') /\ ~AskedRestart(app')) => cur'.paused
          /\ AskedResume(app') => ~cur'.paused
          /\ AskedRestart(app')
             => /\ last'.name = "restart"
                /\ AllZero(Grid')
                /\ cur'.score = 0
                /\ cur'.lines = 0
                /\ cur'.active = [shape |-> PIECES(cur.nextKey)[1], row |-> SpawnRow, col |-> SpawnCol]]_vars

\* C22: from every state of the page with gameOver = true an R key press makes
\* the current state a fresh game: gameOver = false, an all-zero grid, an active
\* piece; and a restart result that is not adopted leaves the grid of the current
\* state as it was.
C22_RestartKeyWorksWhenGameOver ==
    [][(cur.gameOver /\ app'.src = "key" /\ app'.code = "KeyR" /\ PlainKey(app'))
       => /\ ~cur'.gameOver
          /\ AllZero(Grid')
          /\ cur'.active # NoPiece
          /\ ~app'.adopted => Grid' = Grid]_vars

RECURSIVE MoveDownTimes(_, _, _)
\* move(., 0, 1) applied n times, one after the other
MoveDownTimes(w, n, rs) ==
    IF n = 0 THEN w ELSE Only({MoveDownTimes(r.w, n - 1, rs) : r \in {move(w, 0, 1, rs)}})

\* C23: a frame ends after finitely many ticks; it applies none when the state is
\* paused or game over; otherwise it applies move(state, 0, 1) one call after the
\* other until the accumulated time is below the tick interval or a tick returns
\* the reference it was given, and a tick does that only when there is no active
\* piece.
C23_GravityLoopAppliesOwedTicks ==
    [][app'.src = "frame"
       => LET ticks == app'.ticks
              n == Len(ticks)
              every == DropEvery(app.main, cur.level, app.assist)
              owed == app.dropAccum + app'.dt
          IN IF cur.paused \/ cur.gameOver
             THEN /\ n = 0
                  /\ cur' = cur
                  /\ Grid' = Grid
                  /\ app'.dropAccum = app.dropAccum
             ELSE /\ n <= owed \div every
                  /\ \A i \in 1..(n - 1) : ~ticks[i].same
                  /\ (n = 0 \/ ~ticks[n].same)
                        => (app'.dropAccum < every /\ app'.dropAccum = owed - n * every)
                  /\ \A i \in 1..n : ticks[i].same => ~ticks[i].active
                  /\ \E rs \in StreamsFor(bag) :
                        \E m \in {MoveDownTimes(World, n, rs)} :
                           /\ Grid' = GridOf(m)
                           /\ cur'.active = m.cur.active
                           /\ cur'.lines = m.cur.lines
                           /\ cur'.level = m.cur.level
                           /\ cur'.gameOver = m.cur.gameOver]_vars

C23_Witness ==
    /\ app.src = "frame"
    /\ Len(app.ticks) = 2
    /\ app.ticks[1].locked
    /\ app.ticks[2].same
    /\ cur.gameOver
    /\ app.dropAccum >= DropEvery(app.main, cur.level, app.assist)

\* C24: from newGame no sequence of spawnPiece, move with dx, dy in {-1, 0, 1},
\* rotate, hardDrop, togglePause and restart throws: every shape the engine hands
\* to rotateRight passes assertShape, every call returns a snapshot, and a
\* top-out shows as gameOver = true in the snapshot returned.
C24_NoTransitionThrows ==
    /\ ~last.threw
    /\ \A k \in KeySet : \A i \in 1..4 : assertShape(PIECES(k)[i])
    /\ cur.active # NoPiece => assertShape(cur.active.shape)
    /\ (spawned /\ cur.active = NoPiece) => cur.gameOver

C24_Witness ==
    /\ last.name = "rotate"
    /\ ~last.same
    /\ cur.active.row < SpawnRow
    /\ Len(cur.active.shape) # Len(cur.active.shape[1])

\* the shape cell, 0-based, that position (x, y) maps onto grid cell (gr, gc), if
\* it is filled
MapsTo(shape, x, y, gr, gc) ==
    {<<r, c>> \in (0..(Len(shape) - 1)) \X (0..(Len(shape[1]) - 1)) :
        shape[r + 1][c + 1] # 0 /\ y + r = gr /\ x + c = gc}

\* C25: place writes for each non-zero shape cell that maps inside the grid that
\* cell's own value at the mapped position, skips the cells that map outside, and
\* leaves every other cell and the dimensions of the grid as they were; lockPiece
\* gives the same grid as place for every valid grid and piece.
C25_PlaceWritesOwnValues ==
    /\ Returned("place")
          => /\ Len(out.grid) = Len(arg.grid)
             /\ \A gr \in 1..Len(arg.grid) : Len(out.grid[gr]) = Len(arg.grid[gr])
             /\ ~IsEmptyMatrix(arg.shape)
                   => \A gr \in 1..Len(arg.grid) : \A gc \in 1..Len(arg.grid[gr]) :
                         LET from == MapsTo(arg.shape, arg.x, arg.y, gr - 1, gc - 1)
                         IN out.grid[gr][gc] =
                               IF from = {} THEN arg.grid[gr][gc]
                               ELSE arg.shape[Only(from)[1] + 1][Only(from)[2] + 1]
             /\ IsEmptyMatrix(arg.shape) => out.grid = arg.grid
    /\ (Returned("lockPiece") /\ ~IsEmptyMatrix(arg.grid) /\ ~IsEmptyMatrix(arg.shape))
          => /\ ~out.threw
             /\ out.grid = place(<<[i \in 1..Len(arg.grid) |-> i]>>, arg.grid, 1, arg.shape, arg.x, arg.y)

C25_Witness ==
    /\ Returned("place")
    /\ arg.shape = << <<0, 2>>, <<3, 4>> >>
    /\ arg.x = 1
    /\ arg.y = 0
    /\ arg.grid = << <<1, 1>>, <<1, 0>> >>
    /\ out.grid = << <<1, 1>>, <<1, 3>> >>

\* C26: when spawnPiece(s) succeeds the active piece of the result has the
\* rotation-0 shape of the piece named by s.nextKey, row -1 and column 3, the
\* centered column of the width-10 board; nextKey is the id drawn by that call;
\* grid, score, lines, level, combo and paused are as in s.
C26_SpawnPutsNextPieceAboveTop ==
    \A rs \in StreamsFor(bag) :
       \A sp \in {spawnPiece(World, rs)}, drawn \in {SevenBagNext(bag, rs)} :
          /\ sp.cur.active # NoPiece <=> ~collides(Grid, PIECES(cur.nextKey)[1], 3, -1)
          /\ sp.cur.active # NoPiece
                => /\ sp.cur.active = [shape |-> precomputeRotations(tint(ID(cur.nextKey), RawShape(cur.nextKey)))[1],
                                       row |-> -1, col |-> 3]
                   /\ sp.cur.active.col = (BoardWidth - 4) \div 2
                   /\ sp.cur.nextKey = drawn.key
                   /\ sp.bag = drawn.bag
                   /\ GridOf(sp) = Grid
                   /\ sp.cur.score = cur.score
                   /\ sp.cur.lines = cur.lines
                   /\ sp.cur.level = cur.level
                   /\ sp.cur.combo = cur.combo
                   /\ sp.cur.paused = cur.paused

C26_Witness ==
    /\ last.name = "spawnPiece"
    /\ cur.active # NoPiece
    /\ cur.active.row = -1
    /\ cur.active.col = 3
    /\ cur.active.shape # PIECES(cur.nextKey)[1]
    /\ Len(bag) = Len(keys) - 2

\* C27: in every game played from newGame a single lock, by move or by hardDrop,
\* clears at most 4 lines, so the engine never calls scoreForLines with a line
\* count outside 0..4.
C27_LockClearsAtMostFourLines ==
    /\ last.locked => last.cleared \in 0..4
    /\ cur.active # NoPiece
          => \A rs \in StreamsFor(bag) :
                \A h \in {hardDrop(World, rs), move(World, 0, 1, rs)} :
                   /\ h.cleared \in 0..4
                   /\ h.locked
                         => h.w.cur.score - cur.score
                               = scoreForLines(h.cleared, h.w.cur.level, currentCombo).score

C27_Witness ==
    /\ last.locked
    /\ last.cleared = 4
    /\ cur.lines = last.pre.lines + 4
    /\ cur.score = last.pre.score + 800

\* the piece type a shape is a rotation of
KeyOfShape(shape) == CHOOSE k \in KeySet : shape \in RowsOf(PIECES(k))

\* a grid of BoardHeight rows of BoardWidth cells, each 0..7
WellFormed(g) ==
    /\ Len(g) = BoardHeight
    /\ \A r \in 1..Len(g) :
          /\ Len(g[r]) = BoardWidth
          /\ \A c \in 1..Len(g[r]) : g[r][c] \in 0..7

\* C28: in every snapshot reached from newGame(width, height) the grid has height
\* rows of width cells each, and every cell is an integer 0..7: 0, or the id 1..7
\* of the piece type that was locked there.
C28_GridKeepsShapeAndCellIds ==
    /\ WellFormed(Grid)
    /\ cur.active # NoPiece
          => /\ \A r \in 1..Len(cur.active.shape), c \in 1..Len(cur.active.shape[1]) :
                   cur.active.shape[r][c] \in {0, ID(KeyOfShape(cur.active.shape))}
             /\ \A rs \in StreamsFor(bag) :
                   \A h \in {hardDrop(World, rs), move(World, 0, 1, rs)} :
                      /\ WellFormed(GridOf(h.w))
                      /\ (h.locked /\ h.cleared = 0)
                            => \A r \in 1..BoardHeight, c \in 1..BoardWidth :
                                  GridOf(h.w)[r][c] # Grid[r][c]
                                     => /\ Grid[r][c] = 0
                                        /\ GridOf(h.w)[r][c] = ID(KeyOfShape(cur.active.shape))

C28_Witness ==
    /\ last.locked
    /\ last.cleared = 1
    /\ \E r \in 1..BoardHeight : \E c, e \in 1..BoardWidth : Grid[r][c] = ID("L") /\ Grid[r][e] = ID("J")
    /\ Grid[1] = Zeros(BoardWidth)

\* C29: once gameOver = true there is no active piece; move, rotate and hardDrop
\* return the snapshot they were given, togglePause changes only paused, and
\* gameOver becomes false again only through restart.
C29_GameOverIsAbsorbing ==
    [][cur.gameOver
       => /\ cur.active = NoPiece
          /\ last'.name \in {"move", "rotate", "hardDrop"}
                => (last'.same /\ cur' = cur /\ Grid' = Grid /\ bag' = bag)
          /\ last'.name = "togglePause"
                => (cur' = [cur EXCEPT !.paused = ~cur.paused] /\ Grid' = Grid)
          /\ ~cur'.gameOver => last'.name = "restart"]_vars

C29_Witness ==
    /\ cur.gameOver
    /\ last.pre.gameOver
    /\ last.name = "hardDrop"
    /\ last.same
    /\ ~AllZero(Grid)

\* C30: a move whose candidate position does not collide returns a new snapshot
\* whose active piece is the same shape at (row + dy, col + dx), and a rotate whose
\* rotated shape does not collide returns a new snapshot with the rotated shape in
\* place; nothing else differs: grid contents, nextKey, score, level, lines, combo,
\* paused and gameOver are as before and the bag has given no key.
C30_RelocationChangesOnlyActive ==
    [][(last'.name \in {"move", "rotate"} /\ cur.active # NoPiece)
       => LET a == cur.active
              target == IF last'.name = "move"
                        THEN [shape |-> a.shape, row |-> a.row + last'.dy, col |-> a.col + last'.dx]
                        ELSE [shape |-> rotateRight(a.shape), row |-> a.row, col |-> a.col]
          IN ~collides(Grid, target.shape, target.col, target.row)
                => /\ ~last'.same
                   /\ ~last'.locked
                   /\ cur'.active = target
                   /\ cur' = [cur EXCEPT !.active = target]
                   /\ Grid' = Grid
                   /\ bag' = bag
                   /\ draws' = draws
                   /\ currentCombo' = currentCombo]_vars

C30_Witness ==
    /\ last.name = "move"
    /\ last.dx = 1
    /\ last.dy = -1
    /\ ~last.same
    /\ cur.paused
    /\ cur.score > 0
    /\ ~AllZero(Grid)

\* C31: for every rectangular grid with k full rows, after clearLines the top k
\* rows are all zero, the rows below them are the rows of the input that were not
\* full, in their order from top to bottom, and no row of the result is full.
C31_ClearLinesCompactsDownward ==
    (Returned("clearLines") /\ Len(arg.grid) > 0)
       => LET k == Cardinality({r \in 1..Len(arg.grid) : RowFull(arg.grid[r])})
              kept == SelectSeq(arg.grid, LAMBDA row : ~RowFull(row))
          IN /\ \A r \in 1..k : out.grid[r] = Zeros(Len(arg.grid[1]))
             /\ SubSeq(out.grid, k + 1, Len(out.grid)) = kept
             /\ Len(out.grid) = k + Len(kept)
             /\ \A r \in 1..Len(out.grid) : ~RowFull(out.grid[r])

C31_Witness ==
    /\ Returned("clearLines")
    /\ arg.grid = << <<1, 0>>, <<1, 1>>, <<1, 1>>, <<0, 1>> >>
    /\ out.grid = << <<0, 0>>, <<0, 0>>, <<1, 0>>, <<0, 1>> >>

\* C32: in every reachable snapshot with an active piece, each filled cell of the
\* piece lies in a column within [0, width), in a row below height and, when its
\* row is >= 0, on a grid cell holding 0.
C32_ActivePieceNeverOverlaps ==
    cur.active # NoPiece
       => LET a == cur.active
          IN \A r \in 1..Len(a.shape) : \A c \in 1..Len(a.shape[r]) :
                a.shape[r][c] # 0
                   => /\ a.col + c - 1 \in 0..(BoardWidth - 1)
                      /\ a.row + r - 1 < BoardHeight
                      /\ a.row + r - 1 >= 0 => Grid[a.row + r][a.col + c] = 0

\* the piece sits among locked cells: an empty cell of its box is on a filled grid cell
C32_Witness ==
    /\ cur.active # NoPiece
    /\ last.name \in {"move", "rotate"}
    /\ ~last.same
    /\ ~last.locked
    /\ LET a == cur.active
       IN \E r \in 1..Len(a.shape) : \E c \in 1..Len(a.shape[r]) :
             /\ a.shape[r][c] = 0
             /\ a.row + r - 1 \in 0..(BoardHeight - 1)
             /\ a.col + c - 1 \in 0..(BoardWidth - 1)
             /\ Grid[a.row + r][a.col + c] # 0

\* C33: a move locks the active piece only when the piece can no longer fall, that
\* is when one row straight down from where it is collides; for every dx and
\* every dy > 0.
C33_MoveLocksOnlyRestingPiece ==
    [][(last'.name = "move" /\ last'.locked)
       => collides(Grid, cur.active.shape, cur.active.col, cur.active.row + 1)]_vars

\* the number of non-zero cells of a matrix
Filled(m) == Cardinality({rc \in (1..Len(m)) \X (1..BoardWidth) : rc[2] <= Len(m[rc[1]]) /\ m[rc[1]][rc[2]] # 0})

\* C34: every lock commits the whole piece: after place and before the lines are
\* cleared the grid has as many more non-zero cells as the locked shape has filled
\* cells; no filled cell above row 0 is dropped.
C34_LockCommitsWholePiece ==
    [][last'.locked
       => LET a == cur.active
              row == IF last'.name = "move" THEN a.row ELSE DropRow(Grid, a.shape, a.col, a.row)
              placed == place(arrs, rows, cur.grid, a.shape, a.col, row)
          IN Filled(View(arrs, placed, cur.grid)) = Filled(Grid) + Filled(a.shape)]_vars

\* C35: no snapshot a transition returns contains a full row: after every lock and
\* every restart each row of the grid has at least one zero cell.
C35_NoFullRowRemains ==
    \A r \in 1..Len(Grid) : \E c \in 1..Len(Grid[r]) : Grid[r][c] = 0

C35_Witness ==
    /\ last.locked
    /\ last.cleared >= 2
    /\ C35_NoFullRowRemains
    /\ \E r \in 1..Len(Grid) : Cardinality({c \in 1..BoardWidth : Grid[r][c] # 0}) = BoardWidth - 1

\* C36: under repeated gravity ticks, while unpaused and not game-over, every
\* active piece is eventually locked however left/right moves and rotations are
\* interleaved; its row never decreases between spawn and lock, and at most
\* height + 1 gravity ticks occur between the spawn and the lock.
C36_GravityLocksEveryPiece ==
    /\ [](steps <= BoardHeight + 1)
    /\ [][(cur.active # NoPiece /\ ~last'.locked) => cur'.active.row >= cur.active.row]_vars
    /\ <>(Len(draws) = MaxPieces \/ cur.active = NoPiece)

\* the I piece locked flat on the floor by its 21st tick, after moves to the left wall
C36_Witness ==
    /\ last.locked
    /\ steps = BoardHeight + 1
    /\ Len(draws) = 1
    /\ \A c \in 1..4 : Grid[BoardHeight][c] = ID("I")

\* what C37 says of a hardDrop on a snapshot with an active piece, for a bound on the
\* probes of its loop (one probe per row descended and the one that collides)
HardDropWithin(bound) ==
    (last'.name = "hardDrop" /\ cur.active # NoPiece)
       => /\ last'.dropped + 1 <= bound
          /\ ~last'.same
          /\ last'.locked
          /\ cur'.active \in {NoPiece, [shape |-> PIECES(cur.nextKey)[1], row |-> SpawnRow, col |-> SpawnCol]}
          /\ cur'.active = NoPiece <=> cur'.gameOver

\* C37 as stated: for every reachable snapshot with an active piece the loop of
\* hardDrop makes at most height + 1 probes, and hardDrop returns a new snapshot
\* in which the dropped piece is no longer the active piece.
C37_HardDropProbesAtMostHeightPlusOne == [][HardDropWithin(BoardHeight + 1)]_vars

\* C37, amended: the loop makes at most height - row probes, row being the row of
\* the active piece at the call (height + 1 from the spawn row -1); hardDrop
\* returns a new snapshot whose active piece is the newly spawned one or none.
C37_HardDropProbesAtMostHeightMinusRow == [][HardDropWithin(BoardHeight - cur.active.row)]_vars

\* the I piece lifted one row above the spawn row and dropped to the floor
C37_Witness ==
    /\ last.name = "hardDrop"
    /\ last.locked
    /\ last.dropped = BoardHeight + 1
    /\ \E c \in 1..BoardWidth : Grid[BoardHeight][c] = ID("I")

\* C38: when a lock clears k >= 1 lines the points awarded, base and combo bonus,
\* are multiplied by levelForLines(lines + k), the level after the cleared lines
\* are counted, not by the level of the snapshot before the lock; a lock that
\* crosses a 10-line boundary is scored at the new level.
C38_ClearScoredAtNewLevel ==
    [][(last'.locked /\ last'.cleared \in 1..4)
       => LET k == last'.cleared
              newLevel == ((cur.lines + k) \div 10) + 1
              streak == currentCombo + 1
          IN /\ cur'.level = newLevel
             /\ cur'.score - cur.score
                  = (ClaimedBase(k) + (IF streak > 1 THEN 50 * (streak - 1) ELSE 0)) * newLevel]_vars

C38_Witness ==
    /\ last.locked
    /\ last.cleared = 1
    /\ last.pre.lines = 9
    /\ last.pre.level = 1
    /\ cur.lines = 10
    /\ cur.level = 2
    /\ cur.score = last.pre.score + 200

\* C39: in the touch controls, while the game is paused the 'pause' and 'restart'
\* actions are still applied (the game resumes, or restarts), and left, right,
\* down, rotate and hard-drop are ignored.
C39_TouchBarResumesAndRestartsWhenPaused ==
    [][(cur.paused /\ app'.src \in {"touch", "repeat"})
       => /\ app'.code = "pause" => (~cur'.paused /\ Grid' = Grid /\ cur'.active = cur.active)
          /\ app'.code = "restart"
                => (last'.name = "restart" /\ AllZero(Grid') /\ cur'.score = 0 /\ cur'.lines = 0)
          /\ app'.code \in {"left", "right", "down", "rotate", "hard"}
                => (cur' = cur /\ Grid' = Grid /\ bag' = bag)]_vars

\* C40: for every interleaving of pointerdown, pointerup / pointercancel /
\* pointerleave and timer firings on a touch button, two pointerdowns without a
\* release included, once the button has been released no repeat timeout or
\* interval started for that button remains scheduled.
C40_NoTimerOutlivesRelease ==
    \A action \in TouchActions :
       touch.pointers[action] = 0
          => \A k \in 1..Len(touch.h) :
                touch.h[k].action = action
                   => touch.h[k].timeout # "set" /\ touch.h[k].interval # "set"

====
